---------------------------- MODULE Spec2Model ----------------------------
(***************************************************************************)
(* A model of bramify: the Telegram bot that extracts work entries from    *)
(* chat messages, resolves the client to a 3-letter code (asking the user  *)
(* when the client is unknown) and writes the entry to a Google sheet.     *)
(*                                                                         *)
(* Python strings are sequences of one-character strings, so that lower(), *)
(* strip(), re.sub, startswith and the `in` substring test are computed    *)
(* and not assumed.  None is the value NoneVal.                            *)
(***************************************************************************)
EXTENDS Integers, Sequences, FiniteSets, TLC

VARIABLES
    client_codes,          \* ClientMapper.client_codes: the ordered dict, a sequence of <<key, code>>
    pending_work_entries,  \* BramifyBot.pending_work_entries: user id -> work_data (or NoEntry)
    test_mode,             \* BramifyBot.test_mode
    sheets,                \* the spreadsheet: table name -> sequence of rows
    column_mapping,        \* GoogleSheetsClient.column_mapping (Unset while the attribute does not exist)
    config_file,           \* the file config/client_codes.json: what it holds
    conv,                  \* the ConversationHandler's conversation state of each user
    plugins,               \* PluginManager.plugins: the ordered dict, a sequence of <<plugin_id, instance>>
    telegram_app,          \* the handlers the plugins registered with the application
    last,                  \* what the last handled update (or call) did: calls made, replies, return value
    updates,               \* how many updates (or calls) were handled so far
    reminders,             \* ReminderPlugin.reminders: the ordered dict, a sequence of <<user_id, list>>
    storage,               \* the file config/reminders.json: what it holds
    reminder_task,         \* the task running _check_reminders: where it is, and the locals of its pass
    clock,                 \* datetime.now(), in steps of the task's sleep
    handler,               \* the command handler that is suspended in reply_text, if any
    send_calls,            \* the calls of _send_reminder so far
    cleared,               \* the reminders that cmd_clear_reminders removed, with the time of the command
    emptied                \* the users whose cmd_clear_reminders completed and who added nothing since

\* the state of the reminder plugin
reminder_vars == <<reminders, storage, reminder_task, clock, handler, send_calls, cleared, emptied>>

vars == <<client_codes, pending_work_entries, test_mode, sheets, column_mapping, config_file,
          conv, plugins, telegram_app, last, updates, reminder_vars>>

\* the state of the bot and its collaborators that the reminder plugin never touches
bot_vars == <<client_codes, pending_work_entries, test_mode, sheets, column_mapping, config_file,
              conv, plugins, telegram_app, last>>

\* the reminder plugin is not loaded
NoTask == [pc |-> "none", now_ts |-> 0, wake |-> 0, items |-> <<>>, due |-> <<>>, user |-> 0]
NoHandler == [op |-> "none", user |-> 0]
ReminderPluginNotLoaded ==
    /\ reminders = <<>>
    /\ storage = [kind |-> "missing", content |-> <<>>]
    /\ reminder_task = NoTask
    /\ clock = 0
    /\ handler = NoHandler
    /\ send_calls = <<>>
    /\ cleared = {}
    /\ emptied = {}

-----------------------------------------------------------------------------
(* Python values *)

NoneVal == <<"None">>

Uppers == <<"A","B","C","D","E","F","G","H","I","J","K","L","M",
            "N","O","P","Q","R","S","T","U","V","W","X","Y","Z">>
Lowers == <<"a","b","c","d","e","f","g","h","i","j","k","l","m",
            "n","o","p","q","r","s","t","u","v","w","x","y","z">>
Digits == <<"0","1","2","3","4","5","6","7","8","9">>

Range(f) == {f[i] : i \in DOMAIN f}

IsUpper(c) == c \in Range(Uppers)
IsLower(c) == c \in Range(Lowers)
IsDigit(c) == c \in Range(Digits)

\* str.lower() and str.upper() of one character
CharLower(c) ==
    IF IsUpper(c) THEN Lowers[CHOOSE i \in DOMAIN Uppers : Uppers[i] = c] ELSE c
CharUpper(c) ==
    IF IsLower(c) THEN Uppers[CHOOSE i \in DOMAIN Lowers : Lowers[i] = c] ELSE c

StrLower(s) == [i \in DOMAIN s |-> CharLower(s[i])]
StrUpper(s) == [i \in DOMAIN s |-> CharUpper(s[i])]

\* s.startswith(p)
StartsWith(s, p) == Len(p) <= Len(s) /\ SubSeq(s, 1, Len(p)) = p

\* the Python test `a in b` on strings
Contains(b, a) ==
    \E i \in 0..(Len(b) - Len(a)) : SubSeq(b, i + 1, i + Len(a)) = a

\* re.sub of every character outside a class by ''
RECURSIVE KeepChars(_, _)
KeepChars(s, keep) ==
    IF s = <<>> THEN <<>>
    ELSE (IF Head(s) \in keep THEN <<Head(s)>> ELSE <<>>) \o KeepChars(Tail(s), keep)

IsSpace(c) == c \in {" ", "\t", "\n"}

\* str.strip()
RECURSIVE LStrip(_)
LStrip(s) == IF s # <<>> /\ IsSpace(Head(s)) THEN LStrip(Tail(s)) ELSE s
RECURSIVE RStrip(_)
RStrip(s) ==
    IF s # <<>> /\ IsSpace(s[Len(s)]) THEN RStrip(SubSeq(s, 1, Len(s) - 1)) ELSE s
Strip(s) == RStrip(LStrip(s))

\* n copies of the character c
Repeat(c, n) == [i \in 1..n |-> c]

\* Python truthiness of an optional string
Truthy(s) == s # NoneVal /\ s # <<>>

\* max() and min() of a non-empty set of integers
MaxOf(S) == CHOOSE x \in S : \A y \in S : y <= x
MinOf(S) == CHOOSE x \in S : \A y \in S : x <= y

-----------------------------------------------------------------------------
(* integrations/client_mapper.py *)

PrefixThe     == <<"t","h","e"," ">>
PrefixCompany == <<"c","o","m","p","a","n","y"," ">>
PrefixClient  == <<"c","l","i","e","n","t"," ">>
prefixes_to_remove == <<PrefixThe, PrefixCompany, PrefixClient>>

\* the loop over prefixes_to_remove: each prefix, in order, is removed once if present
RECURSIVE RemovePrefixes(_, _)
RemovePrefixes(s, ps) ==
    IF ps = <<>> THEN s
    ELSE LET p == Head(ps) IN
         RemovePrefixes(IF StartsWith(s, p) THEN SubSeq(s, Len(p) + 1, Len(s)) ELSE s,
                        Tail(ps))

_normalize_client_name(client_name) ==
    IF ~Truthy(client_name) THEN <<>>
    ELSE KeepChars(RemovePrefixes(StrLower(client_name), prefixes_to_remove),
                   Range(Lowers) \cup Range(Digits))

\* the last step of _normalize_code: cut to three letters or pad with X
ExactlyThree(letters) ==
    IF Len(letters) > 3 THEN SubSeq(letters, 1, 3)
    ELSE IF Len(letters) < 3 THEN letters \o Repeat("X", 3 - Len(letters))
    ELSE letters

_normalize_code(code) ==
    IF ~Truthy(code) THEN <<>>
    ELSE ExactlyThree(KeepChars(StrUpper(code), Range(Uppers)))

\* the keys of the ordered dict, and the dict lookup
Keys(codes) == {codes[i][1] : i \in DOMAIN codes}
Lookup(codes, key) == codes[CHOOSE i \in DOMAIN codes : codes[i][1] = key][2]

\* dict[key] = value: an existing key keeps its place, a new key goes last
DictSet(codes, key, value) ==
    IF key \in Keys(codes)
    THEN [i \in DOMAIN codes |-> IF codes[i][1] = key THEN <<key, value>> ELSE codes[i]]
    ELSE Append(codes, <<key, value>>)

LastPartialMatch(codes, normalized_name) ==
    LET hits == {i \in DOMAIN codes : \/ Contains(codes[i][1], normalized_name)
                                      \/ Contains(normalized_name, codes[i][1])}
    IN  IF hits # {} THEN codes[MaxOf(hits)][2] ELSE NoneVal

\* the loop of get_code over the items: the code of the first key, in insertion
\* order, that contains the normalized name or is contained in it, else None
PartialMatch(codes, normalized_name) ==
    LET hits == {i \in DOMAIN codes : \/ Contains(codes[i][1], normalized_name)
                                      \/ Contains(normalized_name, codes[i][1])}
    IN  IF hits # {} THEN codes[MinOf(hits)][2] ELSE NoneVal

\* get_code after the name was normalized: the exact key first
LookupNormalized(codes, normalized_name) ==
    IF normalized_name \in Keys(codes) THEN Lookup(codes, normalized_name)
    ELSE PartialMatch(codes, normalized_name)

get_code(codes, client_name) ==
    LookupNormalized(codes, _normalize_client_name(client_name))

AddMappingRawCode(codes, client_name, code) ==
    DictSet(codes, _normalize_client_name(client_name), code)

\* add_mapping: the mapping after the call (the save to the file changes no state here)
add_mapping(codes, client_name, code) ==
    DictSet(codes, _normalize_client_name(client_name), _normalize_code(code))

\* The config file: missing, unreadable (open or read raises), holding text that
\* is no JSON, or holding the JSON of a mapping
MissingFile    == [kind |-> "missing", content |-> <<>>]
UnreadableFile == [kind |-> "unreadable", content |-> <<>>]
InvalidFile    == [kind |-> "invalid", content |-> <<>>]
JsonFile(codes) == [kind |-> "json", content |-> codes]

\* the calls of _save_mappings that can raise: open(config_path, 'w') (the file
\* stays as it was) and json.dump (the file was truncated by the open)
SaveSites == {"save_open", "save_write"}

SaveMappingsSkipped(file, codes, fails) == [file |-> file, raised |-> FALSE]

SaveMappingsRaising(file, codes, fails) ==
    [file |-> IF "save_open" \in fails THEN file
              ELSE IF "save_write" \in fails THEN InvalidFile
              ELSE JsonFile(codes),
     raised |-> fails \cap SaveSites # {}]

\* _save_mappings: the file afterwards; an exception is logged and not raised
_save_mappings(file, codes, fails) ==
    [file |-> IF "save_open" \in fails THEN file
              ELSE IF "save_write" \in fails THEN InvalidFile
              ELSE JsonFile(codes),
     raised |-> FALSE]

\* add_mapping once the dict was updated: the save is called once
Stored(codes, saved) ==
    [codes |-> codes, file |-> saved.file, raised |-> saved.raised, saves |-> 1]

\* add_mapping with its save: the mapping and the file afterwards
AddMappingAndSave(codes, file, client_name, code, fails) ==
    Stored(add_mapping(codes, client_name, code),
           _save_mappings(file, add_mapping(codes, client_name, code), fails))

\* _load_mappings: the mapping and the file after construction.  A missing file
\* is created holding {} (when that raises the file stays missing); an error
\* while reading or parsing leaves the empty mapping
_load_mappings(file, create_fails) ==
    IF file.kind = "json" THEN [codes |-> file.content, file |-> file]
    ELSE IF file.kind = "missing"
         THEN [codes |-> <<>>, file |-> IF create_fails THEN file ELSE JsonFile(<<>>)]
    ELSE [codes |-> <<>>, file |-> file]

IsWordChar(c) == IsUpper(c) \/ IsLower(c) \/ IsDigit(c) \/ c = "_"

\* re.findall(r'\b\w+\b', s): the maximal runs of word characters
RECURSIVE FindWords(_, _)
FindWords(s, cur) ==
    IF s = <<>> THEN (IF cur = <<>> THEN <<>> ELSE <<cur>>)
    ELSE IF IsWordChar(Head(s)) THEN FindWords(Tail(s), Append(cur, Head(s)))
    ELSE (IF cur = <<>> THEN <<>> ELSE <<cur>>) \o FindWords(Tail(s), <<>>)

UNK == <<"U","N","K">>

\* the code suggest_code_for_client makes of the words of the name
CodeOfWords(words) ==
    IF words = <<>> THEN UNK
    ELSE IF Len(words) = 1
         THEN (IF Len(words[1]) >= 3 THEN SubSeq(words[1], 1, 3)
               ELSE words[1] \o Repeat("X", 3 - Len(words[1])))
    ELSE LET n    == IF Len(words) < 3 THEN Len(words) ELSE 3
             code == [i \in 1..n |-> words[i][1]]
         IN  IF n < 3 THEN code \o Repeat(words[1][1], 3 - n) ELSE code

suggest_code_for_client(client_name) ==
    IF ~Truthy(client_name) THEN UNK
    ELSE CodeOfWords(FindWords(StrUpper(client_name), <<>>))

-----------------------------------------------------------------------------
(* Spreadsheet values.  A cell is a string or a number; a value to write may *)
(* also be None (JSON null), which the Sheets API skips.  A table is the     *)
(* sequence of its rows, a row the sequence of its cells, both without       *)
(* trailing empty entries, as values().get returns them.                     *)

StrCell(s) == [k |-> "s", s |-> s, n |-> 0]
NumCell(n) == [k |-> "n", s |-> <<>>, n |-> n]
NoneCell   == [k |-> "none", s |-> <<>>, n |-> 0]
EmptyCell  == StrCell(<<>>)

RECURSIVE IntToStr(_)
IntToStr(n) == IF n < 10 THEN <<Digits[n + 1]>> ELSE IntToStr(n \div 10) \o <<Digits[(n % 10) + 1]>>

\* the text values().get returns for a cell
CellText(c) == IF c.k = "n" THEN IntToStr(c.n) ELSE c.s

RECURSIVE TrimRow(_)
TrimRow(row) ==
    IF row # <<>> /\ row[Len(row)] = EmptyCell THEN TrimRow(SubSeq(row, 1, Len(row) - 1)) ELSE row
RECURSIVE TrimTable(_)
TrimTable(t) ==
    IF t # <<>> /\ t[Len(t)] = <<>> THEN TrimTable(SubSeq(t, 1, Len(t) - 1)) ELSE t

\* the cell at 1-based row r and 0-based column c ("" when the sheet has none)
CellAt(t, r, c) ==
    IF r \in DOMAIN t /\ c + 1 \in DOMAIN t[r] THEN CellText(t[r][c + 1]) ELSE <<>>

\* values().update of row r from column A on with `values`: a None is skipped,
\* an empty string clears the cell
UpdateRow(t, r, values) ==
    LET old    == IF r \in DOMAIN t THEN t[r] ELSE <<>>
        width  == IF Len(old) > Len(values) THEN Len(old) ELSE Len(values)
        merged == [i \in 1..width |->
                     IF i \in DOMAIN values /\ values[i].k # "none" THEN values[i]
                     ELSE IF i \in DOMAIN old THEN old[i] ELSE EmptyCell]
        height == IF Len(t) > r THEN Len(t) ELSE r
    IN  TrimTable([i \in 1..height |->
                     IF i = r THEN TrimRow(merged)
                     ELSE IF i \in DOMAIN t THEN t[i] ELSE <<>>])

\* values().update of the single cell (r, c)
UpdateCell(t, r, c, value) ==
    UpdateRow(t, r, [i \in 1..(c + 1) |-> IF i = c + 1 THEN value ELSE NoneCell])

\* len(values) of a read of column c: the index of the last row with that cell set
ColumnLength(t, c) ==
    LET set == {r \in DOMAIN t : CellAt(t, r, c) # <<>>}
    IN  IF set = {} THEN 0 ELSE CHOOSE r \in set : \A q \in set : q <= r

-----------------------------------------------------------------------------
(* integrations/google_sheets/client.py: dates *)

WeekdayNames == <<
    <<"S","u","n","d","a","y">>,
    <<"M","o","n","d","a","y">>,
    <<"T","u","e","s","d","a","y">>,
    <<"W","e","d","n","e","s","d","a","y">>,
    <<"T","h","u","r","s","d","a","y">>,
    <<"F","r","i","d","a","y">>,
    <<"S","a","t","u","r","d","a","y">>>>

dutch_weekdays == <<
    <<"Z","o","n","d","a","g">>,
    <<"M","a","a","n","d","a","g">>,
    <<"D","i","n","s","d","a","g">>,
    <<"W","o","e","n","s","d","a","g">>,
    <<"D","o","n","d","e","r","d","a","g">>,
    <<"V","r","i","j","d","a","g">>,
    <<"Z","a","t","e","r","d","a","g">>>>

MonthNames == <<
    <<"J","a","n","u","a","r","y">>,
    <<"F","e","b","r","u","a","r","y">>,
    <<"M","a","r","c","h">>,
    <<"A","p","r","i","l">>,
    <<"M","a","y">>,
    <<"J","u","n","e">>,
    <<"J","u","l","y">>,
    <<"A","u","g","u","s","t">>,
    <<"S","e","p","t","e","m","b","e","r">>,
    <<"O","c","t","o","b","e","r">>,
    <<"N","o","v","e","m","b","e","r">>,
    <<"D","e","c","e","m","b","e","r">>>>

dutch_months == <<
    <<"j","a","n","u","a","r","i">>,
    <<"f","e","b","r","u","a","r","i">>,
    <<"m","a","a","r","t">>,
    <<"a","p","r","i","l">>,
    <<"m","e","i">>,
    <<"j","u","n","i">>,
    <<"j","u","l","i">>,
    <<"a","u","g","u","s","t","u","s">>,
    <<"s","e","p","t","e","m","b","e","r">>,
    <<"o","k","t","o","b","e","r">>,
    <<"n","o","v","e","m","b","e","r">>,
    <<"d","e","c","e","m","b","e","r">>>>

\* str.split(sep) for a one-character separator
RECURSIVE SplitOn(_, _, _)
SplitOn(s, sep, cur) ==
    IF s = <<>> THEN <<cur>>
    ELSE IF Head(s) = sep THEN <<cur>> \o SplitOn(Tail(s), sep, <<>>)
    ELSE SplitOn(Tail(s), sep, Append(cur, Head(s)))

\* int(s) for a string of decimal digits (surrounding blanks allowed); -1: ValueError
RECURSIVE DigitsValue(_, _)
DigitsValue(s, acc) ==
    IF s = <<>> THEN acc
    ELSE DigitsValue(Tail(s), 10 * acc + ((CHOOSE i \in DOMAIN Digits : Digits[i] = Head(s)) - 1))
IntOfStripped(t) ==
    IF t # <<>> /\ \A i \in DOMAIN t : IsDigit(t[i]) THEN DigitsValue(t, 0) ELSE -1
ParseInt(s) == IntOfStripped(Strip(s))

IsLeap(y) == (y % 4 = 0 /\ y % 100 # 0) \/ y % 400 = 0
DaysInMonth(y, m) ==
    IF m = 2 THEN (IF IsLeap(y) THEN 29 ELSE 28)
    ELSE IF m \in {4, 6, 9, 11} THEN 30 ELSE 31

\* datetime(year, month, day) accepts the date
ValidDate(y, m, d) ==
    /\ y >= 1 /\ y <= 9999
    /\ m >= 1 /\ m <= 12
    /\ d >= 1 /\ d <= DaysInMonth(y, m)

\* the weekday of a date, 1 = Sunday .. 7 = Saturday (strftime("%A") indexes WeekdayNames)
MonthOffset == <<0, 3, 2, 5, 0, 3, 5, 1, 4, 6, 2, 4>>
WeekdayIndex(y, m, d) ==
    LET yy == IF m < 3 THEN y - 1 ELSE y
    IN  ((yy + (yy \div 4) - (yy \div 100) + (yy \div 400) + MonthOffset[m] + d) % 7) + 1

Sp == <<" ">>

\* the forms date_obj is written in: as given, the English and the Dutch long
\* form, and the day with the Dutch and with the English month
FormsOfDate(date_str, year, m, wd, day_num) ==
    << date_str,
       WeekdayNames[wd] \o Sp \o day_num \o Sp \o MonthNames[m] \o Sp \o year,
       dutch_weekdays[wd] \o Sp \o day_num \o Sp \o dutch_months[m] \o Sp \o year,
       day_num \o Sp \o dutch_months[m],
       day_num \o Sp \o MonthNames[m] >>

\* datetime(int(year), int(month), int(day)): a ValueError leaves the date string alone
FormsOfParts(date_str, year, d, m, y) ==
    IF d < 0 \/ m < 0 \/ y < 0 \/ ~ValidDate(y, m, d) THEN <<date_str>>
    ELSE FormsOfDate(date_str, year, m, WeekdayIndex(y, m, d), IntToStr(d))

FormsOfSplit(date_str, parts) ==
    IF Len(parts) # 3 THEN <<date_str>>
    ELSE FormsOfParts(date_str, parts[3], ParseInt(parts[1]), ParseInt(parts[2]), ParseInt(parts[3]))

\* search_formats of _find_date_row: the date string itself and, when it parses
\* as day-month-year, the long and the day-month forms
SearchFormats(date_str) ==
    IF date_str = NoneVal \/ ~Contains(date_str, <<"-">>) THEN <<date_str>>
    ELSE FormsOfSplit(date_str, SplitOn(date_str, "-", <<>>))

\* the test of one date cell (stripped and lowered) against the search formats
CellValueMatches(cell_value, formats) ==
    \E k \in DOMAIN formats :
        \/ cell_value = StrLower(formats[k])
        \/ Contains(cell_value, StrLower(formats[k]))

DateCellMatches(cell_text, formats) == CellValueMatches(StrLower(Strip(cell_text)), formats)

-----------------------------------------------------------------------------
(* integrations/google_sheets/client.py: rows *)

\* the value of column_mapping while the attribute was never assigned
Unset ==
    [date |-> -1, client |-> -1, description |-> -1, hours |-> -1, unbillable_hours |-> -1, revenue |-> -1]

\* the mapping _detect_columns starts from
DefaultMapping ==
    [date |-> 0, client |-> 1, description |-> 2, hours |-> 3, unbillable_hours |-> 4, revenue |-> 5]

\* the words _detect_columns looks for in a lowered header
WordDatum == <<"d","a","t","u","m">>
WordDate == <<"d","a","t","e">>
WordKlant == <<"k","l","a","n","t">>
WordClient == <<"c","l","i","e","n","t">>
WordBeschrijving == <<"b","e","s","c","h","r","i","j","v","i","n","g">>
WordDescription == <<"d","e","s","c","r","i","p","t","i","o","n">>
WordUren == <<"u","r","e","n">>
WordOnbetaald == <<"o","n","b","e","t","a","a","l","d">>
WordUnbillable == <<"u","n","b","i","l","l","a","b","l","e">>
WordOmzet == <<"o","m","z","e","t">>
WordRevenue == <<"r","e","v","e","n","u","e">>

FieldByHoursWord(header_lower) ==
    IF Contains(header_lower, WordUren) THEN "hours" ELSE "none"

\* the elif chain of _detect_columns: the field a header is taken for
FieldOfLowered(header_lower) ==
    IF Contains(header_lower, WordDatum) \/ Contains(header_lower, WordDate) THEN "date"
    ELSE IF Contains(header_lower, WordKlant) \/ Contains(header_lower, WordClient) THEN "client"
    ELSE IF Contains(header_lower, WordBeschrijving) \/ Contains(header_lower, WordDescription)
         THEN "description"
    ELSE IF /\ Contains(header_lower, WordUren)
            /\ ~Contains(header_lower, WordOnbetaald)
            /\ ~Contains(header_lower, WordUnbillable) THEN "hours"
    ELSE IF /\ Contains(header_lower, WordOnbetaald) \/ Contains(header_lower, WordUnbillable)
            /\ Contains(header_lower, WordUren) THEN "unbillable_hours"
    ELSE IF Contains(header_lower, WordOmzet) \/ Contains(header_lower, WordRevenue) THEN "revenue"
    ELSE "none"

\* one pass of the loop over enumerate(headers): header i sets its field's column
MapHeader(cm, field, i) == IF field = "none" THEN cm ELSE [cm EXCEPT ![field] = i]

\* the loop of _detect_columns from header i on (i is 0-based)
RECURSIVE MapHeaders(_, _, _)
MapHeaders(cm, headers, i) ==
    IF i >= Len(headers) THEN cm
    ELSE MapHeaders(MapHeader(cm, FieldOfLowered(StrLower(CellText(headers[i + 1]))), i),
                    headers, i + 1)

\* a table that does not exist in the spreadsheet
NoSheet == << <<[k |-> "no sheet", s |-> <<>>, n |-> 0]>> >>

\* _detect_columns on the live table: when the read of row 1 raises (as it does
\* for a table that does not exist) or returns no values, the method returns
\* before column_mapping is assigned
_detect_columns(live, read_fails) ==
    IF read_fails \/ live = NoSheet THEN Unset
    ELSE IF live = <<>> \/ live[1] = <<>> THEN Unset
    ELSE MapHeaders(DefaultMapping, live[1], 0)

DefaultRate == 85

\* datetime.now() as text: one opaque value
NowStamp == <<"<now>">>

\* An optional number or boolean is <<>> (None, or no such key) or <<v>>.
\* The backend calls of add_work_entry that can raise, by place in the code.
ReadSites  == {"date_read", "date_read_again", "client_read", "insert_read", "next_row_read"}
WriteSites == {"date_write", "final_write"}
AllSites   == ReadSites \cup WriteSites

\* _format_row_data: the assignments in the order of the code (a later one wins
\* where two fields share a column)
_format_row_data(cm, work_data) ==
    LET width == MaxOf({cm.date, cm.client, cm.description, cm.hours,
                        cm.unbillable_hours, cm.revenue}) + 2
        OptCell(v) == IF v = NoneVal THEN NoneCell ELSE StrCell(v)
        NumOrNone(v) == IF v = <<>> THEN NoneCell ELSE NumCell(v[1])
        is_billable == work_data.billable = <<TRUE>>
        has_hours == work_data.hours # <<>> /\ work_data.hours[1] # 0
        hourly_rate == IF work_data.hourly_rate = <<>> THEN DefaultRate ELSE work_data.hourly_rate[1]
        r0 == [i \in 1..width |-> EmptyCell]
        r1 == [r0 EXCEPT ![cm.date + 1] = OptCell(work_data.date)]
        r2 == [r1 EXCEPT ![cm.client + 1] =
                  IF Truthy(work_data.client_code) THEN StrCell(work_data.client_code)
                  ELSE OptCell(work_data.client)]
        r3 == [r2 EXCEPT ![cm.description + 1] = OptCell(work_data.description)]
        r4 == [r3 EXCEPT ![cm.hours + 1] =
                  IF is_billable THEN NumOrNone(work_data.hours) ELSE EmptyCell]
        r5 == [r4 EXCEPT ![cm.unbillable_hours + 1] =
                  IF is_billable THEN EmptyCell ELSE NumOrNone(work_data.hours)]
        r6 == [r5 EXCEPT ![cm.revenue + 1] =
                  IF is_billable /\ has_hours THEN NumCell(work_data.hours[1] * hourly_rate)
                  ELSE EmptyCell]
    IN  [r6 EXCEPT ![width] = StrCell(NowStamp)]

BottomDateRow(t, cm, formats) ==
    LET hits == {r \in DOMAIN t : /\ CellAt(t, r, cm.date) # <<>>
                                  /\ DateCellMatches(CellAt(t, r, cm.date), formats)}
    IN  IF hits = {} THEN 0 ELSE MaxOf(hits)

\* the loop of _find_date_row over the date column: the topmost row whose cell
\* matches a search format, else 0
FirstDateRow(t, cm, formats) ==
    LET hits == {r \in DOMAIN t : /\ CellAt(t, r, cm.date) # <<>>
                                  /\ DateCellMatches(CellAt(t, r, cm.date), formats)}
    IN  IF hits = {} THEN 0 ELSE MinOf(hits)

\* _find_date_row (a failed read, or the AttributeError of a None date, is caught
\* and gives 0)
_find_date_row(t, cm, date_str, read_fails) ==
    IF read_fails \/ date_str = NoneVal THEN 0
    ELSE FirstDateRow(t, cm, SearchFormats(date_str))

\* how many rows below the date row _find_client_row reads
ClientWindow == 10

\* the loop of _find_client_row over values[1:]: the first row below the date row
\* (the date row itself is skipped) with a date cell set and the client cell equal
\* to client_str, else 0
ClientRowBelow(t, cm, date_row, client_str) ==
    LET hits == {i \in 1..ClientWindow :
                    /\ date_row + i \in DOMAIN t
                    /\ Len(t[date_row + i]) > cm.client
                    /\ Len(t[date_row + i]) > cm.date
                    /\ CellAt(t, date_row + i, cm.date) # <<>>
                    /\ CellAt(t, date_row + i, cm.client) = client_str}
    IN  IF hits = {} THEN 0 ELSE date_row + MinOf(hits)

\* _find_client_row once it has its date row
ClientRowFrom(t, cm, date_row, client_str, fails) ==
    IF date_row = 0 \/ "client_read" \in fails THEN 0
    ELSE ClientRowBelow(t, cm, date_row, client_str)

_find_client_row(t, cm, date_str, client_str, fails) ==
    ClientRowFrom(t, cm, _find_date_row(t, cm, date_str, "date_read_again" \in fails),
                  client_str, fails)

\* how many rows below the date row _insert_row_after looks at
InsertWindow == 5

\* _insert_row_after: the row after the run of rows below row_index whose date
\* cell equals or contains the date cell of row_index
_insert_row_after(t, cm, row_index, fails) ==
    LET date_value == CellAt(t, row_index, cm.date)
        Same(r) == LET check_date == CellAt(t, r, cm.date) IN
                   check_date # <<>> /\ (check_date = date_value \/ Contains(check_date, date_value))
        runs == {k \in 0..InsertWindow : \A i \in 1..k : Same(row_index + i)}
    IN  IF "insert_read" \in fails \/ date_value = <<>> THEN row_index + 1
        ELSE row_index + MaxOf(runs) + 1

\* add_work_entry where no row of the client exists in the date block: the date is
\* copied into row_to_update (row 0: the write raised)
NewRowInBlock(t, cm, date_str, row_to_update, fails) ==
    IF "date_write" \in fails THEN [row |-> 0, table |-> t]
    ELSE [row |-> row_to_update,
          table |-> UpdateCell(t, row_to_update, cm.date,
                               IF date_str = NoneVal THEN NoneCell ELSE StrCell(date_str))]

\* add_work_entry where the date has a row: the client's row, or a new one
RowInBlock(t, cm, date_str, date_row, client_row, fails) ==
    IF client_row > 0 THEN [row |-> client_row, table |-> t]
    ELSE NewRowInBlock(t, cm, date_str, _insert_row_after(t, cm, date_row, fails), fails)

\* the row add_work_entry writes to and the table before that write, given the
\* date row it found; _find_client_row is asked for work_data["client"], the name
RowToUpdate(t, cm, work_data, date_row, fails) ==
    IF date_row > 0
    THEN RowInBlock(t, cm, work_data.date, date_row,
                    _find_client_row(t, cm, work_data.date, work_data.client, fails), fails)
    ELSE [row |-> (IF "next_row_read" \in fails THEN 0 ELSE ColumnLength(t, 0)) + 1,
          table |-> t]

\* the final update of add_work_entry left out: True is returned although nothing
\* was written
WriteRowUnchecked(target, formatted_row, fails) ==
    [table |-> target.table, ok |-> TRUE, row |-> target.row, final_updates |-> 0,
     raised |-> FALSE]

\* the final update of add_work_entry (row 0: an earlier call raised and the update
\* is not reached); it is issued once, and its exception gives False
WriteRow(target, formatted_row, fails) ==
    IF target.row = 0
    THEN [table |-> target.table, ok |-> FALSE, row |-> 0, final_updates |-> 0,
          raised |-> TRUE]
    ELSE IF "final_write" \in fails
    THEN [table |-> target.table, ok |-> FALSE, row |-> 0, final_updates |-> 1,
          raised |-> FALSE]
    ELSE [table |-> UpdateRow(target.table, target.row, formatted_row),
          ok |-> TRUE, row |-> target.row, final_updates |-> 1, raised |-> FALSE]

\* the body of add_work_entry on its target table t: the table afterwards, the
\* value returned and the row written (an unset column_mapping raises at once)
AddToTable(t, cm, work_data, fails) ==
    IF cm = Unset
    THEN [table |-> t, ok |-> FALSE, row |-> 0, final_updates |-> 0, raised |-> TRUE]
    ELSE WriteRow(RowToUpdate(t, cm, work_data,
                              _find_date_row(t, cm, work_data.date, "date_read" \in fails),
                              fails),
                  _format_row_data(cm, work_data), fails)

TestSheet      == "Test-2025"
WorkHoursSheet == "2025"

\* the headers _detect_sheet_structure falls back to
DefaultHeaders ==
    <<StrCell(<<"D","a","t","u","m">>), StrCell(<<"K","l","a","n","t">>),
      StrCell(<<"B","e","s","c","h","r","i","j","v","i","n","g">>), StrCell(<<"U","r","e","n">>),
      StrCell(<<"U","r","e","n"," ","o","n","b","e","t","a","a","l","d">>), StrCell(<<"O","m","z","e","t">>)>>

\* The backend calls of construction that can raise are named "metadata",
\* "create_test", "copy_read", "copy_write" and "header_read".

\* the read of A1:G1 of the live table, with the fallback headers
HeadersToCopy(live, fails) ==
    IF "copy_read" \in fails \/ live = <<>> \/ live[1] = <<>> THEN DefaultHeaders
    ELSE SubSeq(live[1], 1, IF Len(live[1]) < 7 THEN Len(live[1]) ELSE 7)

\* the trial table once addSheet was called for it (a table that exists already
\* makes addSheet raise, which is caught)
CreatedTest(test, fails) ==
    IF test # NoSheet THEN test
    ELSE IF "create_test" \in fails THEN NoSheet ELSE <<>>

\* the copy of the headers to the trial table
CopiedHeaders(created, headers, fails) ==
    IF created = NoSheet \/ "copy_write" \in fails THEN created
    ELSE UpdateRow(created, 1, headers)

\* the trial table after _detect_sheet_structure: it is created, and given the
\* live table's headers, when the metadata do not list it
TestAfterStructure(live, test, fails) ==
    IF test # NoSheet /\ "metadata" \notin fails THEN test
    ELSE IF live # NoSheet /\ "metadata" \notin fails
         THEN CopiedHeaders(CreatedTest(test, fails), HeadersToCopy(live, fails), fails)
    ELSE CreatedTest(test, fails)

\* _detect_sheet_structure: the spreadsheet and column_mapping after __init__
_detect_sheet_structure(live, test, fails) ==
    [sheets |-> [n \in {TestSheet, WorkHoursSheet} |->
                    IF n = TestSheet THEN TestAfterStructure(live, test, fails) ELSE live],
     column_mapping |-> _detect_columns(live, "header_read" \in fails)]

\* the spreadsheet after add_work_entry worked on target_sheet; what its body
\* raised is caught by the outer handler, which returns False
Written(shs, target_sheet, r) ==
    [sheets |-> [shs EXCEPT ![target_sheet] = r.table], ok |-> r.ok /\ ~r.raised,
     row |-> r.row, final_updates |-> r.final_updates, raised |-> FALSE]

\* every call on a table that does not exist raises: the reads are caught one by
\* one, the final update makes add_work_entry return False
AddToSheet(shs, cm, target_sheet, work_data, fails) ==
    IF shs[target_sheet] = NoSheet
    THEN [sheets |-> shs, ok |-> FALSE, row |-> 0, final_updates |-> 1, raised |-> FALSE]
    ELSE Written(shs, target_sheet, AddToTable(shs[target_sheet], cm, work_data, fails))

\* add_work_entry(work_data, test_mode=tm): the target table is chosen by the flag;
\* `fails` are the backend calls that raise during this call
add_work_entry(shs, cm, work_data, tm, fails) ==
    AddToSheet(shs, cm, IF tm THEN TestSheet ELSE WorkHoursSheet, work_data, fails)

-----------------------------------------------------------------------------
(* core/bot.py *)

\* the users that send updates, and config.bot.allowed_user_ids
Users == {1, 2, 3}
AllowedUserIds == {1, 2}

\* the values a handler returns: None, ConversationHandler.END,
\* BramifyBot.WAITING_FOR_CLIENT_CODE, or an exception that leaves the handler
RetNone    == "None"
RetEnd     == "END"
RetWaiting == "WAITING_FOR_CLIENT_CODE"
RetRaised  == "raised"

Reply(kind, text) == [kind |-> kind, text |-> text]

\* What a handler did besides changing the bot's state: the value it returned (ret),
\* what _process_message returned (inner), the replies sent, the add_work_entry
\* and add_mapping calls made, whether the text went through extraction, and what
\* it was called with; for the direct calls of the clients, how often the mapping
\* was saved, which backend calls raised, and the row that was built; for a message
\* handled from the extraction's raw output, the kind of that output, and for
\* initialize_plugin what the plugin class did.
Eff(op, user_id) ==
    [op |-> op, user |-> user_id, update |-> "call", ret |-> RetNone, inner |-> "none",
     replies |-> <<>>, writes |-> <<>>, mappings |-> <<>>, extracted |-> FALSE,
     had_pending |-> FALSE, text |-> <<>>, analysis |-> <<>>,
     saves |-> 0, fails |-> {}, row |-> <<>>, response |-> "none"]

NoEffects == Eff("none", 0)

\* the state a handler reads and writes
BotState(codes, file, pending, tm, shs) ==
    [client_codes |-> codes, config_file |-> file, pending_work_entries |-> pending,
     test_mode |-> tm, sheets |-> shs]

\* one add_work_entry call as the handlers made it
Call(work_data, tm, w) ==
    [work_data |-> work_data, test_mode |-> tm, ok |-> w.ok, row |-> w.row,
     final_updates |-> w.final_updates, raised |-> w.raised]

AllowEveryone(user_id) == TRUE

\* _is_user_allowed: everyone when the list is empty (the refusal is a coroutine
\* that is never awaited: nothing is sent)
_is_user_allowed(user_id) == AllowedUserIds = {} \/ user_id \in AllowedUserIds

\* work_data of _process_message: the extraction's hourly_rate is not copied
WorkDataOf(analysis) ==
    [date |-> analysis.date, client |-> analysis.client, project |-> NoneVal,
     hours |-> analysis.hours, billable |-> analysis.billable,
     description |-> analysis.description, client_code |-> <<>>, hourly_rate |-> <<>>]

\* _process_message after add_work_entry returned w: the value returned is ignored,
\* the confirmation text is built (a None description raises TypeError there, which
\* the except branch turns into the apology) and returned
Registered(st, work_data, w) ==
    [state |-> [st EXCEPT !.sheets = w.sheets],
     eff |-> [inner |-> IF work_data.description = NoneVal THEN "error" ELSE "registered",
              replies |-> <<>>, writes |-> <<Call(work_data, st.test_mode, w)>>]]

RegisterInLiveTable(st, cm, user_id, work_data, fails) ==
    Registered(st, work_data, add_work_entry(st.sheets, cm, work_data, FALSE, fails))

\* the branch `if client_code:` of _process_message
Register(st, cm, user_id, work_data, fails) ==
    Registered(st, work_data, add_work_entry(st.sheets, cm, work_data, st.test_mode, fails))

WriteWithoutCode(st, cm, user_id, work_data, fails) ==
    Register(st, cm, user_id, work_data, fails)

AskForCodeSharedSlot(st, cm, user_id, work_data, fails) ==
    [state |-> [st EXCEPT !.pending_work_entries =
                   [v \in DOMAIN st.pending_work_entries |-> <<work_data>>]],
     eff |-> [inner |-> "error",
              replies |-> <<Reply("prompt", suggest_code_for_client(work_data.client))>>,
              writes |-> <<>>]]

\* the branch `elif update:` of _process_message: the record is stored for the
\* user and the prompt with the suggested code is sent.  The branch ends in
\* `return ConversationHandler.WAITING_FOR_CLIENT_CODE`: the library's class has
\* no such attribute (it is BramifyBot's), the lookup raises AttributeError inside
\* the try, and the except branch returns the apology.
AskForCode(st, cm, user_id, work_data, fails) ==
    [state |-> [st EXCEPT !.pending_work_entries[user_id] = <<work_data>>],
     eff |-> [inner |-> "error",
              replies |-> <<Reply("prompt", suggest_code_for_client(work_data.client))>>,
              writes |-> <<>>]]

\* _process_message once the code was looked up
WithClientCode(st, cm, user_id, work_data, client_code, fails) ==
    IF Truthy(client_code)
    THEN Register(st, cm, user_id, [work_data EXCEPT !.client_code = client_code], fails)
    ELSE AskForCode(st, cm, user_id, work_data, fails)

\* the lookup of _process_message: None when the record names no client
ClientCodeOf(codes, client_name) ==
    IF Truthy(client_name) THEN get_code(codes, client_name) ELSE NoneVal

\* _process_message, called with the update: the new state, the value returned
\* ("registered": the confirmation text, "chat": the generated answer, "error":
\* the apology of the except branch), the replies sent and the add_work_entry calls
_process_message(st, cm, user_id, analysis, fails) ==
    IF ~analysis.is_work_entry
    THEN [state |-> st, eff |-> [inner |-> "chat", replies |-> <<>>, writes |-> <<>>]]
    ELSE WithClientCode(st, cm, user_id, WorkDataOf(analysis),
                        ClientCodeOf(st.client_codes, analysis.client), fails)

\* handle_message after _process_message returned p: the comparison with
\* ConversationHandler.WAITING_FOR_CLIENT_CODE raises AttributeError, so the
\* handler is left by the exception before the response is sent
Responded(st, user_id, analysis, p) ==
    [state |-> p.state,
     eff |-> [Eff("handle_message", user_id) EXCEPT
                 !.ret = RetRaised, !.inner = p.eff.inner, !.replies = p.eff.replies,
                 !.writes = p.eff.writes, !.extracted = TRUE,
                 !.had_pending = st.pending_work_entries[user_id] # <<>>,
                 !.analysis = <<analysis>>]]

handle_message(st, cm, user_id, analysis, fails) ==
    IF ~_is_user_allowed(user_id)
    THEN [state |-> st, eff |-> [Eff("handle_message", user_id) EXCEPT !.analysis = <<analysis>>]]
    ELSE Responded(st, user_id, analysis, _process_message(st, cm, user_id, analysis, fails))

UserInputUnstripped(text) == text

\* user_input of handle_client_code
UserInput(text) == Strip(text)

SavedKeepOnFailure(st, user_id, work_data, user_input, w) ==
    [state |-> [st EXCEPT
                   !.sheets = w.sheets,
                   !.pending_work_entries[user_id] = IF w.ok THEN <<>> ELSE <<work_data>>],
     eff |-> [Eff("handle_client_code", user_id) EXCEPT
                 !.ret = RetEnd,
                 !.replies = <<Reply(IF w.ok THEN "saved" ELSE "save_failed", work_data.client_code)>>,
                 !.writes = <<Call(work_data, st.test_mode, w)>>,
                 !.mappings = <<[name |-> work_data.client, code |-> user_input]>>,
                 !.had_pending = TRUE, !.text = user_input]]

\* handle_client_code after add_work_entry returned w (st is the state with the
\* mapping added): the pending entry is deleted whatever w says, and the answer is sent (building the
\* confirmation of a record with a None description raises TypeError)
Saved(st, user_id, work_data, user_input, w) ==
    [state |-> [st EXCEPT
                   !.sheets = w.sheets,
                   !.pending_work_entries[user_id] = <<>>],
     eff |-> [Eff("handle_client_code", user_id) EXCEPT
                 !.ret = IF w.ok /\ work_data.description = NoneVal THEN RetRaised ELSE RetEnd,
                 !.replies = IF w.ok /\ work_data.description = NoneVal THEN <<>>
                             ELSE <<Reply(IF w.ok THEN "saved" ELSE "save_failed",
                                          work_data.client_code)>>,
                 !.writes = <<Call(work_data, st.test_mode, w)>>,
                 !.mappings = <<[name |-> work_data.client, code |-> user_input]>>,
                 !.had_pending = TRUE, !.text = user_input]]

\* the bot's state once add_mapping returned a
MappedState(st, a) == [st EXCEPT !.client_codes = a.codes, !.config_file = a.file]

\* self.client_mapper.add_mapping(client_name, user_input) of handle_client_code
WithMapping(st, client_name, user_input, fails) ==
    MappedState(st, AddMappingAndSave(st.client_codes, st.config_file, client_name,
                                      user_input, fails))

\* the branch `if user_input and len(user_input) >= 1:` of handle_client_code:
\* the mapping is added and saved, then the record is written
SaveWithCode(st, cm, user_id, work_data, user_input, fails) ==
    Saved(WithMapping(st, work_data.client, user_input, fails), user_id, work_data, user_input,
          add_work_entry(st.sheets, cm, work_data, st.test_mode, fails))

\* handle_client_code once the message text was stripped
WithUserInput(st, cm, user_id, user_input, fails) ==
    IF ~_is_user_allowed(user_id)
    THEN [state |-> st,
          eff |-> [Eff("handle_client_code", user_id) EXCEPT
                      !.ret = RetEnd, !.text = user_input,
                      !.had_pending = st.pending_work_entries[user_id] # <<>>]]
    ELSE IF st.pending_work_entries[user_id] = <<>>
    THEN [state |-> st,
          eff |-> [Eff("handle_client_code", user_id) EXCEPT
                      !.ret = RetEnd, !.replies = <<Reply("no_pending", <<>>)>>,
                      !.text = user_input]]
    ELSE IF user_input # <<>> /\ Len(user_input) >= 1
    THEN SaveWithCode(st, cm, user_id,
                      [st.pending_work_entries[user_id][1] EXCEPT
                          !.client_code = _normalize_code(user_input)],
                      user_input, fails)
    ELSE [state |-> st,
          eff |-> [Eff("handle_client_code", user_id) EXCEPT
                      !.ret = RetWaiting, !.replies = <<Reply("invalid_code", <<>>)>>,
                      !.had_pending = TRUE, !.text = user_input]]

handle_client_code(st, cm, user_id, text, fails) ==
    WithUserInput(st, cm, user_id, UserInput(text), fails)

\* cancel_conversation (it does not ask _is_user_allowed)
cancel_conversation(st, user_id) ==
    [state |-> [st EXCEPT !.pending_work_entries[user_id] = <<>>],
     eff |-> [Eff("cancel_conversation", user_id) EXCEPT
                 !.ret = RetEnd, !.replies = <<Reply("cancelled", <<>>)>>,
                 !.had_pending = st.pending_work_entries[user_id] # <<>>]]

\* cmd_enable_production and cmd_test_mode
SetMode(st, user_id, op, tm) ==
    IF ~_is_user_allowed(user_id)
    THEN [state |-> st, eff |-> Eff(op, user_id)]
    ELSE [state |-> [st EXCEPT !.test_mode = tm],
          eff |-> [Eff(op, user_id) EXCEPT !.replies = <<Reply("mode", <<>>)>>]]

cmd_enable_production(st, user_id) == SetMode(st, user_id, "cmd_enable_production", FALSE)
cmd_test_mode(st, user_id) == SetMode(st, user_id, "cmd_test_mode", TRUE)

-----------------------------------------------------------------------------
(* The inputs the model draws from *)

\* how many updates (or direct calls) one run handles
MaxUpdates == 3

D1 == <<"2","6","-","0","3","-","2","0","2","5">>
D2 == <<"2","7","-","0","3","-","2","0","2","5">>

GlobexCorp == <<"G","l","o","b","e","x"," ","C","o","r","p">>
Globex     == <<"g","l","o","b","e","x">>
GLX        == <<"G","L","X">>

\* the header row of both tables
HeaderRow == DefaultHeaders

Analysis(is_work, client, date, hours, billable, description) ==
    [is_work_entry |-> is_work, client |-> client, date |-> date, hours |-> hours,
     billable |-> billable, description |-> description, hourly_rate |-> <<85>>]

\* results of claude.analyze_work_entry (the description of a work entry is text):
\* not a work entry; work for a named client (twice the same day, and under
\* another spelling, at an hourly rate of its own); work with no client
Extractions ==
    { Analysis(FALSE, NoneVal, D1, <<>>, <<TRUE>>, <<>>),
      Analysis(TRUE, GlobexCorp, D1, <<4>>, <<TRUE>>, <<"a">>),
      Analysis(TRUE, GlobexCorp, D1, <<2>>, <<FALSE>>, <<"b">>),
      [Analysis(TRUE, Globex, D2, <<4>>, <<TRUE>>, <<"a">>) EXCEPT !.hourly_rate = <<100>>],
      Analysis(TRUE, NoneVal, D2, <<>>, <<TRUE>>, <<"b">>) }

\* message texts a user sends while a code is asked for
CodeTexts == { <<"g","l","x">>, <<" ","a","1"," ">>, <<" ">> }

\* the backend failures while the bot handles one update
BotFails == { {}, {"final_write"}, {"save_open"} }

\* the config file the bot finds at start-up: none, or one that knows a client
BotStartFiles == { MissingFile, JsonFile(<< <<Globex, GLX>> >>) }

-----------------------------------------------------------------------------
(* The bot: every handler it registers, called with any update *)

NoConversation == "none"

Init ==
    /\ \E f \in BotStartFiles :
          /\ client_codes = _load_mappings(f, FALSE).codes
          /\ config_file = _load_mappings(f, FALSE).file
    /\ pending_work_entries = [u \in Users |-> <<>>]
    /\ test_mode = TRUE
    /\ sheets = [n \in {TestSheet, WorkHoursSheet} |-> <<HeaderRow>>]
    /\ column_mapping = DefaultMapping
    /\ conv = [u \in Users |-> NoConversation]
    /\ plugins = <<>>
    /\ telegram_app = <<>>
    /\ ReminderPluginNotLoaded
    /\ last = NoEffects
    /\ updates = 0

Now == BotState(client_codes, config_file, pending_work_entries, test_mode, sheets)

\* the state after a handler ran
Apply(r) ==
    /\ updates < MaxUpdates
    /\ client_codes' = r.state.client_codes
    /\ config_file' = r.state.config_file
    /\ pending_work_entries' = r.state.pending_work_entries
    /\ test_mode' = r.state.test_mode
    /\ sheets' = r.state.sheets
    /\ last' = r.eff
    /\ updates' = updates + 1
    /\ UNCHANGED <<reminder_vars, column_mapping, conv, plugins, telegram_app>>

HandleMessage ==
    \E u \in Users, a \in Extractions, f \in BotFails :
        Apply(handle_message(Now, column_mapping, u, a, f))

HandleClientCode ==
    \E u \in Users, txt \in CodeTexts, f \in BotFails :
        Apply(handle_client_code(Now, column_mapping, u, txt, f))

CancelConversation ==
    \E u \in Users : Apply(cancel_conversation(Now, u))

CmdEnableProduction ==
    \E u \in Users : Apply(cmd_enable_production(Now, u))

CmdTestMode ==
    \E u \in Users : Apply(cmd_test_mode(Now, u))

Next ==
    \/ HandleMessage
    \/ HandleClientCode
    \/ CancelConversation
    \/ CmdEnableProduction
    \/ CmdTestMode

Spec == Init /\ [][Next]_vars

-----------------------------------------------------------------------------
(* The application: updates routed through the handlers _register_handlers adds, *)
(* all in one group, the first handler that accepts an update handling it        *)

\* entry_points=[] of the ConversationHandler
EntryPoints == {}

\* ConversationHandler.check_update for a user whose conversation is in state c:
\* with no conversation only an entry point starts one; in a conversation the
\* handlers of its state and then the fallbacks are tried
ConvAccepts(c, kind) ==
    IF c = NoConversation THEN kind \in EntryPoints
    ELSE (c = RetWaiting /\ kind = "text") \/ kind = "cancel"

\* the conversation state after its handler returned ret
ConvAfter(c, ret) ==
    IF ret = RetEnd THEN NoConversation
    ELSE IF ret \in {RetNone, RetRaised} THEN c
    ELSE ret

\* an update no handler accepts
Unhandled(st, user_id) == [state |-> st, eff |-> Eff("unhandled", user_id)]

\* a text message that is no command: the ConversationHandler comes before the
\* MessageHandler of handle_message
RouteText(st, cm, c, user_id, analysis, text, fails) ==
    IF ConvAccepts(c, "text") THEN handle_client_code(st, cm, user_id, text, fails)
    ELSE handle_message(st, cm, user_id, analysis, fails)

\* /cancel: a command, so only the ConversationHandler's fallback can take it
RouteCancel(st, c, user_id) ==
    IF ConvAccepts(c, "cancel") THEN cancel_conversation(st, user_id)
    ELSE Unhandled(st, user_id)

\* the state after the application processed an update of user u
ApplyRouted(r, kind, u, by_conv) ==
    /\ updates < MaxUpdates
    /\ client_codes' = r.state.client_codes
    /\ config_file' = r.state.config_file
    /\ pending_work_entries' = r.state.pending_work_entries
    /\ test_mode' = r.state.test_mode
    /\ sheets' = r.state.sheets
    /\ last' = [r.eff EXCEPT !.update = kind]
    /\ conv' = IF by_conv THEN [conv EXCEPT ![u] = ConvAfter(conv[u], r.eff.ret)] ELSE conv
    /\ updates' = updates + 1
    /\ UNCHANGED <<reminder_vars, column_mapping, plugins, telegram_app>>

TextUpdate ==
    \E u \in Users, a \in Extractions, txt \in CodeTexts, f \in BotFails :
        ApplyRouted(RouteText(Now, column_mapping, conv[u], u, a, txt, f),
                    "text", u, ConvAccepts(conv[u], "text"))

CancelUpdate ==
    \E u \in Users :
        ApplyRouted(RouteCancel(Now, conv[u], u), "cancel", u, ConvAccepts(conv[u], "cancel"))

EnableProductionUpdate ==
    \E u \in Users : ApplyRouted(cmd_enable_production(Now, u), "command", u, FALSE)

TestModeUpdate ==
    \E u \in Users : ApplyRouted(cmd_test_mode(Now, u), "command", u, FALSE)

NextApp ==
    \/ TextUpdate
    \/ CancelUpdate
    \/ EnableProductionUpdate
    \/ TestModeUpdate

SpecApp == Init /\ [][NextApp]_vars

-----------------------------------------------------------------------------
(* The sheets client alone: add_work_entry called with records that carry a code *)

Initech == <<"I","n","i","t","e","c","h">>
INI     == <<"I","N","I">>

WorkData(client, client_code, date, hours, billable, description) ==
    [date |-> date, client |-> client, project |-> NoneVal, hours |-> hours,
     billable |-> billable, description |-> description, client_code |-> client_code,
     hourly_rate |-> <<>>]

\* records of one client on one day that differ in hours and description, a
\* record of another client that day, and a record of another day
SheetRecords ==
    { WorkData(GlobexCorp, GLX, D1, <<4>>, <<TRUE>>, <<"a">>),
      WorkData(GlobexCorp, GLX, D1, <<2>>, <<FALSE>>, <<"b">>),
      WorkData(Initech, INI, D1, <<1>>, <<TRUE>>, <<"c">>),
      WorkData(GlobexCorp, GLX, D2, <<4>>, <<TRUE>>, <<"a">>) }

\* the tables a run starts from: the header alone, and a template whose date
\* column is filled in ahead
StartTables ==
    { <<HeaderRow>>,
      <<HeaderRow, <<StrCell(D1)>>, <<StrCell(D2)>>>> }

\* the spreadsheet the client is constructed on: a live table with its header and
\* no trial table yet; both tables from the template; no live table; a live
\* table with nothing in it
StartSheets ==
    { [live |-> <<HeaderRow>>, test |-> NoSheet],
      [live |-> <<HeaderRow, <<StrCell(D1)>>, <<StrCell(D2)>>>>,
       test |-> <<HeaderRow, <<StrCell(D1)>>, <<StrCell(D2)>>>>],
      [live |-> NoSheet, test |-> <<HeaderRow>>],
      [live |-> <<>>, test |-> <<HeaderRow>>] }

\* the backend failures during construction
StartFails == { {}, {"header_read"} }

\* the backend failures during one direct call
SheetFails == { {}, {"final_write"}, {"date_write"}, {"client_read"} }

\* GoogleSheetsClient.__init__
InitSheet ==
    /\ client_codes = <<>>
    /\ config_file = JsonFile(<<>>)
    /\ pending_work_entries = [u \in Users |-> <<>>]
    /\ test_mode = TRUE
    /\ \E s \in StartSheets, f \in StartFails :
          /\ sheets = _detect_sheet_structure(s.live, s.test, f).sheets
          /\ column_mapping = _detect_sheet_structure(s.live, s.test, f).column_mapping
          /\ last = [Eff("__init__", 0) EXCEPT !.fails = f]
    /\ conv = [u \in Users |-> NoConversation]
    /\ plugins = <<>>
    /\ telegram_app = <<>>
    /\ ReminderPluginNotLoaded
    /\ updates = 0

\* how many add_work_entry calls one run of the client alone makes
MaxCalls == 2

\* the state after add_work_entry returned w
Called(work_data, tm, f, w) ==
    /\ updates < MaxCalls
    /\ sheets' = w.sheets
    /\ last' = [Eff("add_work_entry", 0) EXCEPT
                   !.writes = <<Call(work_data, tm, w)>>, !.fails = f]
    /\ updates' = updates + 1
    /\ UNCHANGED <<reminder_vars, client_codes, config_file, pending_work_entries, test_mode, column_mapping, conv, plugins, telegram_app>>

SheetAddWorkEntry ==
    \E work_data \in SheetRecords, tm \in BOOLEAN, f \in SheetFails :
        Called(work_data, tm, f, add_work_entry(sheets, column_mapping, work_data, tm, f))

NextSheet == SheetAddWorkEntry

SpecSheet == InitSheet /\ [][NextSheet]_vars

-----------------------------------------------------------------------------
(* The client mapper alone: add_mapping called with any name and code *)

\* how many add_mapping calls one run makes
MaxMappings == 3

Ab     == <<"a","b">>
Abc    == <<"A","b","c">>
TheAb  == <<"T","h","e"," ","A","B">>
Xy     == <<"x","-","y">>

MapperNames == { Ab, Abc, TheAb, Xy }

\* the codes given: three letters, too short with a digit, too long, and empty
MapperCodes == { <<"a","b","c">>, <<"x","1">>, <<"q","r","s","t">>, <<>> }

\* the names get_code is asked for afterwards
MapperProbes ==
    MapperNames \cup { <<"a","b","c">>, <<"a","b","c","d">>, <<"A","B">>, <<"x","y","z">>, <<"b">> }

\* the config file the mapper is constructed on
StartFiles ==
    { MissingFile, UnreadableFile, InvalidFile, JsonFile(<< <<Ab, <<"X","X","X">>>> >>) }

\* the failures of the save of one add_mapping call
MapperFails == { {}, {"save_write"} }

\* ClientMapper.__init__
InitMapper ==
    /\ \E f \in StartFiles, create_fails \in BOOLEAN :
          /\ client_codes = _load_mappings(f, create_fails).codes
          /\ config_file = _load_mappings(f, create_fails).file
          /\ last = [Eff("__init__", 0) EXCEPT !.fails = IF create_fails THEN {"create"} ELSE {}]
    /\ pending_work_entries = [u \in Users |-> <<>>]
    /\ test_mode = TRUE
    /\ sheets = [n \in {TestSheet, WorkHoursSheet} |-> <<HeaderRow>>]
    /\ column_mapping = DefaultMapping
    /\ conv = [u \in Users |-> NoConversation]
    /\ plugins = <<>>
    /\ telegram_app = <<>>
    /\ ReminderPluginNotLoaded
    /\ updates = 0

\* the state after add_mapping returned (or raised) a
Mapped(client_name, code, f, a) ==
    /\ updates < MaxMappings
    /\ client_codes' = a.codes
    /\ config_file' = a.file
    /\ last' = [Eff("add_mapping", 0) EXCEPT
                   !.mappings = <<[name |-> client_name, code |-> code]>>,
                   !.ret = IF a.raised THEN RetRaised ELSE RetNone,
                   !.saves = a.saves, !.fails = f]
    /\ updates' = updates + 1
    /\ UNCHANGED <<reminder_vars, pending_work_entries, test_mode, sheets, column_mapping, conv, plugins, telegram_app>>

MapperAddMapping ==
    \E client_name \in MapperNames, code \in MapperCodes, f \in MapperFails :
        Mapped(client_name, code, f,
               AddMappingAndSave(client_codes, config_file, client_name, code, f))

NextMapper == MapperAddMapping

SpecMapper == InitMapper /\ [][NextMapper]_vars

-----------------------------------------------------------------------------
(* suggest_code_for_client alone, applied to any short client name *)

\* how long the names are
MaxNameLen == 3

\* the characters of the names: a lowercase and an uppercase letter, a digit, a blank
NameChars == {"a", "B", "3", " "}

SuggestNames == {NoneVal} \cup UNION {[1..k -> NameChars] : k \in 0..MaxNameLen}

\* a name was chosen and nothing else happened
InitSuggest ==
    /\ client_codes = <<>>
    /\ config_file = JsonFile(<<>>)
    /\ pending_work_entries = [u \in Users |-> <<>>]
    /\ test_mode = TRUE
    /\ sheets = [n \in {TestSheet, WorkHoursSheet} |-> <<HeaderRow>>]
    /\ column_mapping = DefaultMapping
    /\ conv = [u \in Users |-> NoConversation]
    /\ plugins = <<>>
    /\ telegram_app = <<>>
    /\ ReminderPluginNotLoaded
    /\ \E name \in SuggestNames : last = [Eff("input", 0) EXCEPT !.text = name]
    /\ updates = 0

\* suggest_code_for_client(name): the suggestion is kept as the reply
SuggestCode ==
    /\ last.op \in {"input", "suggest_code_for_client"}
    /\ last' = [Eff("suggest_code_for_client", 0) EXCEPT
                   !.text = last.text,
                   !.replies = <<Reply("suggestion", suggest_code_for_client(last.text))>>]
    /\ UNCHANGED <<reminder_vars, client_codes, config_file, pending_work_entries, test_mode, sheets,
                   column_mapping, conv, plugins,
                   telegram_app, updates>>

NextSuggest == SuggestCode

SpecSuggest == InitSuggest /\ [][NextSuggest]_vars

-----------------------------------------------------------------------------
(* _format_row_data alone, on the column mapping detected from a header row *)

Hdr(s) == StrCell(s)

\* header rows of the live table: the expected one; one with a project column
\* before the description; one without a column for the unbillable hours
FormatHeaders ==
    { DefaultHeaders,
      <<DefaultHeaders[1], DefaultHeaders[2], Hdr(<<"P","r","o","j","e","c","t">>),
        DefaultHeaders[3], DefaultHeaders[4], DefaultHeaders[5], DefaultHeaders[6]>>,
      <<DefaultHeaders[1], DefaultHeaders[2], DefaultHeaders[3], DefaultHeaders[4],
        DefaultHeaders[6]>> }

\* the records: with and without hours, billable or not (or None), with and
\* without a code and a rate of their own
FormatRecords ==
    { [WorkData(GlobexCorp, code, D1, hours, billable, <<"a">>) EXCEPT !.hourly_rate = rate] :
        code \in {GLX, <<>>}, hours \in {<<>>, <<0>>, <<2>>, <<4>>},
        billable \in {<<TRUE>>, <<FALSE>>, <<>>}, rate \in {<<>>, <<100>>} }

\* GoogleSheetsClient.__init__ on a spreadsheet whose tables hold the header row
InitFormat ==
    /\ client_codes = <<>>
    /\ config_file = JsonFile(<<>>)
    /\ pending_work_entries = [u \in Users |-> <<>>]
    /\ test_mode = TRUE
    /\ \E h \in FormatHeaders :
          /\ sheets = _detect_sheet_structure(<<h>>, <<h>>, {}).sheets
          /\ column_mapping = _detect_sheet_structure(<<h>>, <<h>>, {}).column_mapping
    /\ conv = [u \in Users |-> NoConversation]
    /\ plugins = <<>>
    /\ telegram_app = <<>>
    /\ ReminderPluginNotLoaded
    /\ last = Eff("__init__", 0)
    /\ updates = 0

\* _format_row_data(work_data): the record and the row built are kept
FormatRowData ==
    \E work_data \in FormatRecords :
        /\ last' = [Eff("_format_row_data", 0) EXCEPT
                       !.analysis = <<work_data>>,
                       !.row = _format_row_data(column_mapping, work_data)]
        /\ UNCHANGED <<reminder_vars, client_codes, config_file, pending_work_entries, test_mode, sheets,
                       column_mapping, conv, plugins,
                   telegram_app, updates>>

NextFormat == FormatRowData

SpecFormat == InitFormat /\ [][NextFormat]_vars


-----------------------------------------------------------------------------
(* integrations/claude/client.py *)

\* datetime.now().strftime("%d-%m-%Y")
Today == <<"0","5","-","1","1","-","2","0","2","6">>

\* the characters a..b of s exist and are decimal digits (\d{n})
AllDigits(s, a, b) == b <= Len(s) /\ \A i \in a..b : IsDigit(s[i])

CharIs(s, i, c) == i <= Len(s) /\ s[i] = c

\* re.match(r'\d{2}-\d{2}-\d{4}', date_str): the pattern at the start of the
\* string, whatever follows it
MatchesDayFirst(s) ==
    /\ AllDigits(s, 1, 2) /\ CharIs(s, 3, "-")
    /\ AllDigits(s, 4, 5) /\ CharIs(s, 6, "-")
    /\ AllDigits(s, 7, 10)

\* re.match(r'\d{4}-\d{2}-\d{2}', date_str)
MatchesISO(s) ==
    /\ AllDigits(s, 1, 4) /\ CharIs(s, 5, "-")
    /\ AllDigits(s, 6, 7) /\ CharIs(s, 8, "-")
    /\ AllDigits(s, 9, 10)

\* re.match(r'\d{1,2}/\d{1,2}/\d{4}', date_str)
MatchesSlash(s) ==
    \E a \in 1..2, b \in 1..2 :
        /\ AllDigits(s, 1, a) /\ CharIs(s, a + 1, "/")
        /\ AllDigits(s, a + 2, a + 1 + b) /\ CharIs(s, a + b + 2, "/")
        /\ AllDigits(s, a + b + 3, a + b + 6)

\* str.zfill(2) of a string of digits
ZFill2(s) == IF Len(s) < 2 THEN Repeat("0", 2 - Len(s)) \o s ELSE s

\* year, month, day = date_str.split('-'): another number of parts raises
\* ValueError, which gives today's date
FromISO(parts) ==
    IF Len(parts) # 3 THEN Today
    ELSE parts[3] \o <<"-">> \o parts[2] \o <<"-">> \o parts[1]

\* day, month, year = date_str.split('/')
FromSlash(parts) ==
    IF Len(parts) # 3 THEN Today
    ELSE ZFill2(parts[1]) \o <<"-">> \o ZFill2(parts[2]) \o <<"-">> \o parts[3]

\* result["date"] as analyze_work_entry returns it: today's date for a missing or
\* empty one, else the date string checked against the three patterns in turn
ValidatedDate(date_str) ==
    IF date_str = NoneVal \/ date_str = <<>> THEN Today
    ELSE IF MatchesDayFirst(date_str) THEN date_str
    ELSE IF MatchesISO(date_str) THEN FromISO(SplitOn(date_str, "-", <<>>))
    ELSE IF MatchesSlash(date_str) THEN FromSlash(SplitOn(date_str, "/", <<>>))
    ELSE Today

\* What self.client.messages.create gave: it raised ("raises"); a response with
\* no content ("no_content"); a text that holds no JSON ("no_json"); a text whose
\* braces hold no valid JSON ("bad_json", `result` is the work entry that text was
\* meant to state); valid JSON that is no object ("not_object"); a JSON object
\* ("object", `result` is that object).
Response(kind, result) == [kind |-> kind, result |-> result]

AnalyzeLenient(response) == response.result

\* analyze_work_entry: every exception between the API call and the return (the
\* call itself, content[0] of an empty list, json.loads, the date check of a
\* value that is no dict) is caught and gives {"is_work_entry": False}; a JSON
\* object is returned with its date checked
analyze_work_entry(response) ==
    IF response.kind = "object"
    THEN [response.result EXCEPT !.date = ValidatedDate(response.result.date)]
    ELSE [is_work_entry |-> FALSE]

-----------------------------------------------------------------------------
(* The date check of analyze_work_entry alone *)

DayTexts   == { <<"5">>, <<"0","5">>, <<"2","6">>, <<"3","1">> }
MonthTexts == { <<"2">>, <<"0","3">>, <<"1","2">>, <<"1","3">> }
YearTexts  == { <<"2","0","2","5">>, <<"2","0","2","4">> }

\* date strings of the extraction: day, month and year joined by "-", "/" or ".",
\* the year first or last; a date with a time or another character after it; a
\* day with a month name; no date
DateTexts ==
    { d \o <<sep>> \o m \o <<sep>> \o y :
        d \in DayTexts, m \in MonthTexts, y \in YearTexts, sep \in {"-", "/", "."} }
    \cup { y \o <<"-">> \o m \o <<"-">> \o d :
             d \in DayTexts, m \in MonthTexts, y \in YearTexts }
    \cup { <<"2","0","2","5","-","0","3","-","2","6","T","1","0",":","0","0">>,
           <<"2","6","-","0","3","-","2","0","2","5"," ","1","0",":","0","0">>,
           <<"2","6"," ","m","a","a","r","t">>, <<>>, NoneVal }

\* a date string came back from the extraction and nothing else happened
InitDate ==
    /\ client_codes = <<>>
    /\ config_file = JsonFile(<<>>)
    /\ pending_work_entries = [u \in Users |-> <<>>]
    /\ test_mode = TRUE
    /\ sheets = [n \in {TestSheet, WorkHoursSheet} |-> <<HeaderRow>>]
    /\ column_mapping = DefaultMapping
    /\ conv = [u \in Users |-> NoConversation]
    /\ plugins = <<>>
    /\ telegram_app = <<>>
    /\ ReminderPluginNotLoaded
    /\ \E date_str \in DateTexts : last = [Eff("input", 0) EXCEPT !.text = date_str]
    /\ updates = 0

\* how often the date check is applied in one run
MaxChecks == 2

\* the date check is applied to the date string, then to its own result
ValidateDate ==
    /\ updates < MaxChecks
    /\ last' = [Eff("validate_date", 0) EXCEPT
                   !.text = IF last.op = "input" THEN last.text ELSE last.replies[1].text,
                   !.replies = <<Reply("date",
                                       ValidatedDate(IF last.op = "input" THEN last.text
                                                     ELSE last.replies[1].text))>>]
    /\ updates' = updates + 1
    /\ UNCHANGED <<reminder_vars, client_codes, config_file, pending_work_entries, test_mode, sheets,
                   column_mapping, conv, plugins, telegram_app>>

NextDate == ValidateDate

SpecDate == InitDate /\ [][NextDate]_vars

-----------------------------------------------------------------------------
(* The bot's text handler on the raw output of the extraction *)

ISO1 == <<"2","0","2","5","-","0","3","-","2","6">>

FailedKinds == {"raises", "no_content", "no_json", "bad_json", "not_object"}

\* the outputs of the extraction: the objects of Extractions, one with an ISO
\* date, and the failures
Responses ==
    { Response("object", a) : a \in Extractions }
    \cup { Response("object", Analysis(TRUE, GlobexCorp, ISO1, <<1>>, <<TRUE>>, <<"c">>)) }
    \cup { Response(k, Analysis(FALSE, NoneVal, D1, <<>>, <<TRUE>>, <<>>)) :
              k \in FailedKinds \ {"bad_json"} }
    \cup { Response("bad_json", Analysis(TRUE, GlobexCorp, D1, <<4>>, <<TRUE>>, <<"a">>)) }

\* what the handler did, with the kind of output it worked on
OnResponse(h, kind) == [state |-> h.state, eff |-> [h.eff EXCEPT !.response = kind]]

\* handle_message of a text message whose extraction gave r
ExtractMessage ==
    \E u \in Users, r \in Responses :
        Apply(OnResponse(handle_message(Now, column_mapping, u, analyze_work_entry(r), {}),
                         r.kind))

NextExtract == ExtractMessage

SpecExtract == Init /\ [][NextExtract]_vars

-----------------------------------------------------------------------------
(* core/plugin_manager.py *)

\* What a plugin class does when initialize_plugin works on it: its constructor
\* raises; initialize() raises, returns False or returns True; or initialize()
\* returns True and register_handlers raises after its first add_handler.
PluginBehaviours ==
    {"constructor_raises", "initialize_raises", "initialize_false", "initialize_true",
     "register_raises"}

RetTrue  == "True"
RetFalse == "False"

\* plugin.register_handlers(self.telegram_app): the handlers of this instance are
\* added to the application (`all`: every handler was added)
register_handlers(app, plugin_id, instance, behaviour) ==
    Append(app, [plugin |-> plugin_id, instance |-> instance,
                 all |-> behaviour # "register_raises"])

InitializeUnchecked(pm, plugin_id, instance, behaviour) ==
    [plugins |-> DictSet(pm.plugins, plugin_id, instance),
     telegram_app |-> register_handlers(pm.telegram_app, plugin_id, instance, behaviour),
     ret |-> RetTrue]

\* initialize_plugin(plugin_id, plugin_class, *args): the registry and the
\* application afterwards and the value returned; every exception is caught and
\* gives False
initialize_plugin(pm, plugin_id, instance, behaviour) ==
    IF behaviour = "initialize_true"
    THEN [plugins |-> DictSet(pm.plugins, plugin_id, instance),
          telegram_app |-> register_handlers(pm.telegram_app, plugin_id, instance, behaviour),
          ret |-> RetTrue]
    ELSE IF behaviour = "register_raises"
    THEN [plugins |-> pm.plugins,
          telegram_app |-> register_handlers(pm.telegram_app, plugin_id, instance, behaviour),
          ret |-> RetFalse]
    ELSE [plugins |-> pm.plugins, telegram_app |-> pm.telegram_app,
          ret |-> RetFalse]

-----------------------------------------------------------------------------
(* The plugin manager alone: initialize_plugin called with any plugin *)

\* how many initialize_plugin calls one run makes
MaxPlugins == 3

PluginIds == {"summary", "reminder"}

\* PluginManager.__init__
InitPlugins ==
    /\ client_codes = <<>>
    /\ config_file = JsonFile(<<>>)
    /\ pending_work_entries = [u \in Users |-> <<>>]
    /\ test_mode = TRUE
    /\ sheets = [n \in {TestSheet, WorkHoursSheet} |-> <<HeaderRow>>]
    /\ column_mapping = DefaultMapping
    /\ conv = [u \in Users |-> NoConversation]
    /\ plugins = <<>>
    /\ telegram_app = <<>>
    /\ ReminderPluginNotLoaded
    /\ last = NoEffects
    /\ updates = 0

\* the state after initialize_plugin returned r
Initialized(plugin_id, behaviour, r) ==
    /\ plugins' = r.plugins
    /\ telegram_app' = r.telegram_app
    /\ last' = [Eff("initialize_plugin", 0) EXCEPT
                   !.ret = r.ret, !.text = <<plugin_id>>, !.response = behaviour]
    /\ updates' = updates + 1
    /\ UNCHANGED <<reminder_vars, client_codes, config_file, pending_work_entries, test_mode, sheets,
                   column_mapping, conv>>

InitializePlugin ==
    /\ updates < MaxPlugins
    /\ \E plugin_id \in PluginIds, behaviour \in PluginBehaviours :
          Initialized(plugin_id, behaviour,
                      initialize_plugin([plugins |-> plugins, telegram_app |-> telegram_app],
                                        plugin_id, updates + 1, behaviour))

NextPlugins == InitializePlugin

SpecPlugins == InitPlugins /\ [][NextPlugins]_vars

-----------------------------------------------------------------------------
(* _detect_columns alone, on any header row of the live table *)

\* how many headers the drawn rows have
MaxHeaders == 3

\* header texts: those of the expected row, an invoice date, the hours under
\* another name, the unbillable hours in English word order, and a project
HeaderTexts ==
    Range(DefaultHeaders)
    \cup { StrCell(<<"F","a","c","t","u","u","r","d","a","t","u","m">>),
           StrCell(<<"G","e","w","e","r","k","t","e"," ","u","r","e","n">>),
           StrCell(<<"U","n","b","i","l","l","a","b","l","e"," ","u","r","e","n">>),
           StrCell(<<"P","r","o","j","e","c","t">>) }

\* header rows: the expected one, the expected one with one more column, and
\* every row of up to MaxHeaders header texts
HeaderRows ==
    { DefaultHeaders }
    \cup { Append(DefaultHeaders, h) : h \in HeaderTexts }
    \cup UNION { [1..k -> HeaderTexts] : k \in 1..MaxHeaders }

\* the spreadsheet before _detect_columns ran
InitColumns ==
    /\ client_codes = <<>>
    /\ config_file = JsonFile(<<>>)
    /\ pending_work_entries = [u \in Users |-> <<>>]
    /\ test_mode = TRUE
    /\ \E headers \in HeaderRows :
          sheets = [n \in {TestSheet, WorkHoursSheet} |-> <<headers>>]
    /\ column_mapping = Unset
    /\ conv = [u \in Users |-> NoConversation]
    /\ plugins = <<>>
    /\ telegram_app = <<>>
    /\ ReminderPluginNotLoaded
    /\ last = NoEffects
    /\ updates = 0

DetectColumns ==
    /\ last.op = "none"
    /\ column_mapping' = _detect_columns(sheets[WorkHoursSheet], FALSE)
    /\ last' = Eff("_detect_columns", 0)
    /\ UNCHANGED <<reminder_vars, client_codes, config_file, pending_work_entries, test_mode, sheets, conv,
                   plugins, telegram_app, updates>>

NextColumns == DetectColumns

SpecColumns == InitColumns /\ [][NextColumns]_vars

-----------------------------------------------------------------------------
(* _find_date_row alone, on any date column *)

\* how many rows the drawn tables have below the header row
MaxRows == 3

\* what the date cells hold: nothing, the date as DD-MM-YYYY (also with blanks
\* around it), its long form in lower case, a day with its month, the day before
\* it in the same form, a month alone, a year alone
DateCells ==
    { <<>>,
      D1,
      <<" ">> \o D2 \o <<" ">>,
      <<"w","o","e","n","s","d","a","g"," ","2","6"," ","m","a","a","r","t"," ","2","0","2","5">>,
      <<"2","7"," ","M","a","a","r","t">>,
      <<"m","a","a","r","t">>,
      <<"2","0","2","5">> }

\* a table with its header row and one date cell per row
DateTable(cells) ==
    <<HeaderRow>> \o [i \in DOMAIN cells |->
                        IF cells[i] = <<>> THEN <<>> ELSE <<StrCell(cells[i])>>]

DateTables == { DateTable(cells) : cells \in UNION { [1..k -> DateCells] : k \in 0..MaxRows } }

\* the client on a table whose dates were filled in ahead
InitFindDate ==
    /\ client_codes = <<>>
    /\ config_file = JsonFile(<<>>)
    /\ pending_work_entries = [u \in Users |-> <<>>]
    /\ test_mode = TRUE
    /\ \E t \in DateTables : sheets = [n \in {TestSheet, WorkHoursSheet} |-> t]
    /\ column_mapping = DefaultMapping
    /\ conv = [u \in Users |-> NoConversation]
    /\ plugins = <<>>
    /\ telegram_app = <<>>
    /\ ReminderPluginNotLoaded
    /\ last = NoEffects
    /\ updates = 0

\* _find_date_row(self.test_sheet, date_str), with the read of the date column
\* raising or not
\* the sixth of the month of D1
D6 == <<"0","6","-","0","3","-","2","0","2","5">>

FindDateRow ==
    /\ last.op = "none"
    /\ \E date_str \in {D1, D2, D6}, read_fails \in BOOLEAN :
          last' = [Eff("_find_date_row", 0) EXCEPT
                      !.text = date_str,
                      !.fails = IF read_fails THEN {"date_read"} ELSE {},
                      !.row = <<_find_date_row(sheets[TestSheet], column_mapping, date_str,
                                               read_fails)>>]
    /\ UNCHANGED <<reminder_vars, client_codes, config_file, pending_work_entries, test_mode, sheets,
                   column_mapping, conv, plugins, telegram_app, updates>>

NextFindDate == FindDateRow

SpecFindDate == InitFindDate /\ [][NextFindDate]_vars

-----------------------------------------------------------------------------
(* add_work_entry alone, on tables that were filled in ahead *)

\* D1 and D2 as a template writes them
LongD1 == <<"W","o","e","n","s","d","a","g"," ","2","6"," ","m","a","a","r","t"," ","2","0","2","5">>
LongD2 == <<"D","o","n","d","e","r","d","a","g"," ","2","7"," ","m","a","a","r","t"," ","2","0","2","5">>

\* a header row with the client in column A and the date in column B
ClientFirstHeaders ==
    <<DefaultHeaders[2], DefaultHeaders[1], DefaultHeaders[3], DefaultHeaders[4],
      DefaultHeaders[5], DefaultHeaders[6]>>

\* the spreadsheet the client is constructed on, both tables alike: the header
\* row alone; a template with one row per date; that template with the client in
\* column A and the date in column B; a template with the dates in long form
PlaceSheets ==
    { <<HeaderRow>>,
      <<HeaderRow, <<StrCell(D1)>>, <<StrCell(D2)>>>>,
      <<ClientFirstHeaders, <<EmptyCell, StrCell(D1)>>>>,
      <<HeaderRow, <<StrCell(LongD1)>>, <<StrCell(LongD2)>>>> }

\* the backend reads that raise during one call: none, the date column, the
\* rows below the date row, the date cells of the block, column A
PlaceFails == { {}, {"date_read"}, {"client_read"}, {"insert_read"}, {"next_row_read"} }

\* GoogleSheetsClient.__init__ on a spreadsheet that has both tables
InitPlace ==
    /\ client_codes = <<>>
    /\ config_file = JsonFile(<<>>)
    /\ pending_work_entries = [u \in Users |-> <<>>]
    /\ test_mode = TRUE
    /\ \E t \in PlaceSheets :
          /\ sheets = _detect_sheet_structure(t, t, {}).sheets
          /\ column_mapping = _detect_sheet_structure(t, t, {}).column_mapping
    /\ conv = [u \in Users |-> NoConversation]
    /\ plugins = <<>>
    /\ telegram_app = <<>>
    /\ ReminderPluginNotLoaded
    /\ last = Eff("__init__", 0)
    /\ updates = 0

PlaceWorkEntry ==
    \E work_data \in SheetRecords, tm \in BOOLEAN, f \in PlaceFails :
        Called(work_data, tm, f, add_work_entry(sheets, column_mapping, work_data, tm, f))

NextPlace == PlaceWorkEntry

SpecPlace == InitPlace /\ [][NextPlace]_vars

-----------------------------------------------------------------------------
(* The reminder plugin: its commands and the task that checks for due reminders *)

\* how far the clock runs; one step of the clock is the task's sleep of 60 seconds
MaxClock == 2

\* how many commands the users send
MaxCommands == 2

ReminderUsers == {1, 2}

\* a reminder as _process_reminder stores it; the message is the number of the
\* update that set it, so no two reminders are equal
Reminder(time, message, created_at) ==
    [time |-> time, message |-> message, created_at |-> created_at]

\* self.reminders.get(user_id, [])
ListOf(rem, user_id) == IF user_id \in Keys(rem) THEN Lookup(rem, user_id) ELSE <<>>

\* _load_reminders: the dict of the file when it exists and holds JSON, else {}
_load_reminders(file) == IF file.kind = "json" THEN file.content ELSE <<>>

\* _save_reminders: json.dump of the dict
_save_reminders(rem) == [kind |-> "json", content |-> rem]

\* no time was understood in the text
NoTime == -1

\* _process_reminder: a text in which no time is understood, or that has no
\* message left, is refused; otherwise the reminder is appended to the user's
\* list (a new list for a new user) and the dict is saved
_process_reminder(rem, user_id, reminder_time, reminder_message, now) ==
    IF reminder_time = NoTime \/ reminder_message = <<>>
    THEN [reminders |-> rem, success |-> FALSE]
    ELSE [reminders |-> DictSet(rem, user_id,
                                Append(ListOf(rem, user_id),
                                       Reminder(reminder_time, reminder_message[1], now))),
          success |-> TRUE]

ClearNothing(rem, user_id) == [reminders |-> rem, saved |-> FALSE]

\* cmd_clear_reminders up to its reply: a user of the dict gets a new empty list
\* and the dict is saved
cmd_clear_reminders(rem, user_id) ==
    IF user_id \in Keys(rem)
    THEN [reminders |-> DictSet(rem, user_id, <<>>), saved |-> TRUE]
    ELSE [reminders |-> rem, saved |-> FALSE]

KeepAll(rs, now_ts) == rs

\* the two comprehensions of _check_reminders
Due(rs, now_ts) == SelectSeq(rs, LAMBDA r : r.time <= now_ts)
NotYetDue(rs, now_ts) == SelectSeq(rs, LAMBDA r : r.time > now_ts)

SendSuspends(rem, file, user_id, reminder, now) ==
    [user |-> user_id, reminder |-> reminder, at |-> now, delivered |-> TRUE, suspended |-> TRUE,
     in_dict |-> \E i \in DOMAIN ListOf(rem, user_id) : ListOf(rem, user_id)[i] = reminder,
     in_file |-> \E i \in DOMAIN ListOf(_load_reminders(file), user_id) :
                     ListOf(_load_reminders(file), user_id)[i] = reminder]

\* _send_reminder: self.telegram_app is no attribute of the plugin (and
\* telegram.bot is no module of the library the bot is written for), so the
\* body raises before bot.send_message is awaited, and the except logs it: the
\* call delivers nothing and the task is not suspended in it.  The record of the
\* call notes whether dict and file still held the reminder when it was made.
_send_reminder(rem, file, user_id, reminder, now) ==
    [user |-> user_id, reminder |-> reminder, at |-> now, delivered |-> FALSE, suspended |-> FALSE,
     in_dict |-> \E i \in DOMAIN ListOf(rem, user_id) : ListOf(rem, user_id)[i] = reminder,
     in_file |-> \E i \in DOMAIN ListOf(_load_reminders(file), user_id) :
                     ListOf(_load_reminders(file), user_id)[i] = reminder]

\* list(self.reminders.items()): an entry for each user, with the user's list
\* object.  An entry shares the list with the dict (an append is seen through
\* it) until the dict gets a new list for the user; then it keeps the old list.
Items(rem) == [k \in DOMAIN rem |-> [user |-> rem[k][1], shared |-> TRUE, list |-> <<>>]]
ItemList(rem, item) == IF item.shared THEN ListOf(rem, item.user) ELSE item.list

\* self.reminders[user_id] = <a new list>, seen from the entries the task holds
Unshare(items, rem, user_id) ==
    [k \in DOMAIN items |->
        IF items[k].user = user_id /\ items[k].shared
        THEN [items[k] EXCEPT !.shared = FALSE, !.list = ListOf(rem, user_id)]
        ELSE items[k]]

\* the task runs on from where it is until it is suspended: in a
\* _send_reminder that awaits, or in the sleep at the end of the pass.  For a
\* user with due reminders the list is replaced by the reminders not yet due
\* and the dict is saved, then _send_reminder is called for each due reminder.
RECURSIVE RunTask(_, _)
RunTask(st, now) ==
    IF st.task.due # <<>>
    THEN LET call == _send_reminder(st.reminders, st.storage, st.task.user, Head(st.task.due), now)
             sent == [st EXCEPT !.send_calls = Append(st.send_calls, call),
                                !.task.due = Tail(st.task.due)]
         IN  IF call.suspended THEN [sent EXCEPT !.task.pc = "sending"]
             ELSE RunTask(sent, now)
    ELSE IF st.task.items # <<>>
    THEN LET item == Head(st.task.items)
             rs == ItemList(st.reminders, item)
             kept == DictSet(st.reminders, item.user, NotYetDue(rs, st.task.now_ts))
         IN  IF Due(rs, st.task.now_ts) = <<>>
             THEN RunTask([st EXCEPT !.task.items = Tail(st.task.items)], now)
             ELSE RunTask([st EXCEPT !.reminders = kept,
                                     !.storage = _save_reminders(kept),
                                     !.task.items = Unshare(Tail(st.task.items), st.reminders, item.user),
                                     !.task.due = Due(rs, st.task.now_ts),
                                     !.task.user = item.user], now)
    ELSE [st EXCEPT !.task.pc = "sleeping", !.task.wake = now + 1]

\* _check_reminders from where the task is: a new pass of the while loop begins
\* with datetime.now() and the list of the items, a suspended pass goes on
_check_reminders(rem, file, calls, task, now) ==
    RunTask([reminders |-> rem, storage |-> file, send_calls |-> calls,
             task |-> IF task.pc = "sending" THEN task
                      ELSE [task EXCEPT !.now_ts = now, !.items = Items(rem)]],
            now)

\* the file the plugin finds: none, or one with a reminder of user 1 that is due at 1
ReminderStartFiles ==
    { [kind |-> "missing", content |-> <<>>],
      _save_reminders(<< <<1, <<Reminder(1, 0, 0)>>>> >>) }

\* the plugin after initialize(): the reminders loaded, the task created
InitReminders ==
    /\ client_codes = <<>>
    /\ config_file = JsonFile(<<>>)
    /\ pending_work_entries = [u \in Users |-> <<>>]
    /\ test_mode = TRUE
    /\ sheets = [n \in {TestSheet, WorkHoursSheet} |-> <<HeaderRow>>]
    /\ column_mapping = DefaultMapping
    /\ conv = [u \in Users |-> NoConversation]
    /\ plugins = <<>>
    /\ telegram_app = <<>>
    /\ last = NoEffects
    /\ updates = 0
    /\ \E f \in ReminderStartFiles :
          /\ reminders = _load_reminders(f)
          /\ storage = f
    /\ reminder_task = [NoTask EXCEPT !.pc = "ready"]
    /\ clock = 0
    /\ handler = NoHandler
    /\ send_calls = <<>>
    /\ cleared = {}
    /\ emptied = {}

\* the application takes the next update: no handler is running
TakesUpdate ==
    /\ handler = NoHandler
    /\ updates < MaxCommands

\* cmd_remind and handle_reminder_message, up to the reply
Remind(user_id) ==
    /\ TakesUpdate
    /\ \E when \in {NoTime, 0, 1, 2}, reminder_message \in {<<>>, <<updates + 1>>} :
          LET r == _process_reminder(reminders, user_id,
                                     IF when = NoTime THEN NoTime ELSE clock + when,
                                     reminder_message, clock)
          IN  /\ reminders' = r.reminders
              /\ storage' = IF r.success THEN _save_reminders(r.reminders) ELSE storage
              /\ emptied' = IF r.success THEN emptied \ {user_id} ELSE emptied
    /\ handler' = [op |-> "cmd_remind", user |-> user_id]
    /\ updates' = updates + 1
    /\ UNCHANGED <<bot_vars, reminder_task, clock, send_calls, cleared>>

\* cmd_clear_reminders, up to the reply
ClearReminders(user_id) ==
    /\ TakesUpdate
    /\ LET r == cmd_clear_reminders(reminders, user_id)
       IN  /\ reminders' = r.reminders
           /\ storage' = IF r.saved THEN _save_reminders(r.reminders) ELSE storage
    /\ cleared' = cleared \cup
          { [user |-> user_id, reminder |-> ListOf(reminders, user_id)[i], at |-> clock] :
                i \in DOMAIN ListOf(reminders, user_id) }
    /\ handler' = [op |-> "cmd_clear_reminders", user |-> user_id]
    /\ updates' = updates + 1
    /\ reminder_task' = [reminder_task EXCEPT !.items = Unshare(@, reminders, user_id)]
    /\ UNCHANGED <<bot_vars, clock, send_calls, emptied>>

\* reply_text returns and the handler completes
Replied ==
    /\ handler # NoHandler
    /\ handler' = NoHandler
    /\ emptied' = IF handler.op = "cmd_clear_reminders" THEN emptied \cup {handler.user}
                  ELSE emptied
    /\ UNCHANGED <<bot_vars, updates, reminders, storage, reminder_task, clock, send_calls, cleared>>

\* the task runs: when it was created, when its sleep is over, and when the
\* send it was suspended in returns
CheckReminders ==
    /\ \/ reminder_task.pc = "ready"
       \/ reminder_task.pc = "sleeping" /\ clock >= reminder_task.wake
       \/ reminder_task.pc = "sending"
    /\ LET st == _check_reminders(reminders, storage, send_calls, reminder_task, clock)
       IN  /\ reminders' = st.reminders
           /\ storage' = st.storage
           /\ send_calls' = st.send_calls
           /\ reminder_task' = st.task
    /\ UNCHANGED <<bot_vars, updates, clock, handler, cleared, emptied>>

\* a minute passes
Tick ==
    /\ clock < MaxClock
    /\ clock' = clock + 1
    /\ UNCHANGED <<bot_vars, updates, reminders, storage, reminder_task, handler, send_calls,
                   cleared, emptied>>

NextReminders ==
    \/ \E user_id \in ReminderUsers : Remind(user_id)
    \/ \E user_id \in ReminderUsers : ClearReminders(user_id)
    \/ Replied
    \/ CheckReminders
    \/ Tick

SpecReminders == InitReminders /\ [][NextReminders]_vars
-----------------------------------------------------------------------------
(* The claims *)

\* the target table of the call last made
TargetOfCall(call) == IF call.test_mode THEN TestSheet ELSE WorkHoursSheet

\* the rows of table t that carry the date and the client code of a record
RowsOf(t, cm, work_data) ==
    {r \in DOMAIN t : /\ CellAt(t, r, cm.date) = work_data.date
                      /\ CellAt(t, r, cm.client) = work_data.client_code}

\* the step handled one more update (or call)
Stepped == updates' = updates + 1

\* C1 (as the spec states it): two successful add_work_entry calls in succession on
\* the same table with records of the same date, client and client code write
\* the same row; afterwards the table has exactly one row of that date and
\* client, and no row more than before the second call.
C1_SameDateClientSameRow ==
    [][ ( /\ Stepped
          /\ last.op = "add_work_entry" /\ last'.op = "add_work_entry"
          /\ last.writes[1].ok /\ last'.writes[1].ok
          /\ last'.writes[1].test_mode = last.writes[1].test_mode
          /\ last'.writes[1].work_data.date = last.writes[1].work_data.date
          /\ last'.writes[1].work_data.client = last.writes[1].work_data.client
          /\ last'.writes[1].work_data.client_code = last.writes[1].work_data.client_code )
        => /\ last'.writes[1].row = last.writes[1].row
           /\ Len(sheets'[TargetOfCall(last'.writes[1])]) = Len(sheets[TargetOfCall(last'.writes[1])])
           /\ Cardinality(RowsOf(sheets'[TargetOfCall(last'.writes[1])], column_mapping,
                                 last'.writes[1].work_data)) = 1
      ]_vars

\* C2: every add_work_entry call the message handlers make passes a record whose
\* client_code is non-empty, and a record whose client was not resolved is held
\* as pending, without a code, and is not written.
C2_WritesCarryClientCode ==
    /\ \A i \in DOMAIN last.writes : Truthy(last.writes[i].work_data.client_code)
    /\ \A u \in Users : pending_work_entries[u] # <<>> =>
           ~Truthy(pending_work_entries[u][1].client_code)
    /\ ( /\ last.op = "handle_message" /\ last.extracted
         /\ last.analysis[1].is_work_entry
         /\ ~Truthy(ClientCodeOf(client_codes, last.analysis[1].client)) )
       => /\ last.writes = <<>>
          /\ pending_work_entries[last.user] = <<WorkDataOf(last.analysis[1])>>

\* C2: _process_message wrote a record whose client it resolved
C2_Witness ==
    /\ last.op = "handle_message"
    /\ Len(last.writes) = 1
    /\ last.writes[1].ok
    /\ last.writes[1].work_data.client_code = <<"G","L","X">>

\* C3 (as the spec states it): right after the record of user u was stored as
\* pending and the prompt was sent, a text message of u is handled by
\* handle_client_code and does not go through extraction.
C3_NextTextIsTheCode ==
    [][ ( /\ Stepped
          /\ last.op = "handle_message"
          /\ \E i \in DOMAIN last.replies : last.replies[i].kind = "prompt"
          /\ pending_work_entries[last.user] # <<>>
          /\ last'.update = "text" /\ last'.user = last.user )
        => /\ last'.op = "handle_client_code"
           /\ ~last'.extracted
      ]_vars

\* C4 (as the spec states it): when a message of u is extracted as a work entry
\* whose client has no code, the record is stored as u's pending record, exactly
\* one reply (the prompt with the suggested code) is sent, nothing is written,
\* _process_message returns WAITING_FOR_CLIENT_CODE and u's conversation waits
\* for the code.
C4_UnresolvedAsksAndWaits ==
    ( /\ last.op = "handle_message" /\ last.extracted
      /\ last.analysis[1].is_work_entry
      /\ ~Truthy(ClientCodeOf(client_codes, last.analysis[1].client)) )
    => /\ pending_work_entries[last.user] = <<WorkDataOf(last.analysis[1])>>
       /\ last.replies = <<Reply("prompt", suggest_code_for_client(last.analysis[1].client))>>
       /\ last.writes = <<>>
       /\ last.inner = RetWaiting
       /\ conv[last.user] = RetWaiting

C6_PendingLeavesOnlyWhenSaved ==
    [][ \A u \in Users :
          /\ ( pending_work_entries[u] # <<>> /\ pending_work_entries'[u] # pending_work_entries[u] )
             => \/ /\ last'.op = "handle_client_code" /\ last'.user = u
                   /\ Len(last'.writes) = 1 /\ last'.writes[1].ok
                \/ last'.op = "cancel_conversation" /\ last'.user = u
                \/ /\ last'.op = "handle_message" /\ last'.user = u
                   /\ pending_work_entries'[u] # <<>>
          /\ ( /\ Stepped
               /\ last'.op = "handle_client_code" /\ last'.user = u
               /\ pending_work_entries[u] # <<>>
               /\ Len(last'.writes) = 1 /\ ~last'.writes[1].ok )
             => pending_work_entries'[u] # <<>>
      ]_vars

\* C7: pending_work_entries holds at most one record per user; a work entry of u
\* whose client has no code replaces u's pending record by the new record and
\* leaves the pending record of every other user as it was.
C7_OnePendingPerUser ==
    [][ /\ \A u \in Users : Len(pending_work_entries'[u]) <= 1
        /\ \A u \in Users :
             ( /\ Stepped
               /\ last'.op = "handle_message" /\ last'.user = u /\ last'.extracted
               /\ last'.analysis[1].is_work_entry
               /\ ~Truthy(ClientCodeOf(client_codes, last'.analysis[1].client)) )
             => /\ pending_work_entries'[u] = <<WorkDataOf(last'.analysis[1])>>
                /\ \A v \in Users \ {u} : pending_work_entries'[v] = pending_work_entries[v]
      ]_vars

\* C7: a user who had a pending record sent another unresolved work entry while
\* another user has a different record pending
C7_Witness ==
    /\ last.op = "handle_message"
    /\ last.had_pending
    /\ last.analysis[1].is_work_entry
    /\ pending_work_entries[last.user] = <<WorkDataOf(last.analysis[1])>>
    /\ \E v \in Users \ {last.user} :
           /\ pending_work_entries[v] # <<>>
           /\ pending_work_entries[v] # pending_work_entries[last.user]

\* C8 (as the spec states it): whenever u issues the cancel command, afterwards u
\* has no pending record and no conversation, nothing was written, no mapping
\* changed and the pending records of the other users are as before.
C8_CancelClearsPending ==
    [][ \A u \in Users :
          ( Stepped /\ last'.update = "cancel" /\ last'.user = u )
          => /\ pending_work_entries'[u] = <<>>
             /\ conv'[u] = NoConversation
             /\ last'.writes = <<>>
             /\ sheets' = sheets
             /\ client_codes' = client_codes
             /\ \A v \in Users \ {u} : pending_work_entries'[v] = pending_work_entries[v]
      ]_vars

\* C9: when handle_client_code gets a text that is empty after trimming from a
\* user with a pending record, it asks again and returns WAITING_FOR_CLIENT_CODE,
\* and the pending records, the client mapping and the spreadsheet stay as they were.
C9_EmptyCodeReprompts ==
    [][ \A u \in Users :
          ( /\ Stepped
            /\ last'.op = "handle_client_code" /\ last'.user = u
            /\ pending_work_entries[u] # <<>>
            /\ Strip(last'.text) = <<>> )
          => /\ last'.ret = RetWaiting
             /\ last'.replies = <<Reply("invalid_code", <<>>)>>
             /\ last'.writes = <<>>
             /\ pending_work_entries' = pending_work_entries
             /\ client_codes' = client_codes
             /\ sheets' = sheets
      ]_vars

\* C9: a user with a pending record sent a blank text and was asked again
C9_Witness ==
    /\ last.op = "handle_client_code"
    /\ last.had_pending
    /\ last.text = <<>>
    /\ last.ret = RetWaiting
    /\ pending_work_entries[last.user] # <<>>

\* the place of a key in the mapping
KeyIndex(codes, key) == CHOOSE i \in DOMAIN codes : codes[i][1] = key

\* a key of the mapping contains the normalized name or is contained in it
Overlaps(key, normalized_name) ==
    Contains(key, normalized_name) \/ Contains(normalized_name, key)

\* C10 (as the spec states it): right after add_mapping(name, code), get_code
\* returns _normalize_code(code) for the name, for every string whose normalized
\* form contains the normalized name, and for every case variant of the name.
C10_GetCodeAfterAddMappingAsStated ==
    last.op = "add_mapping" =>
        \A s \in MapperProbes :
            ( \/ s = last.mappings[1].name
              \/ Contains(_normalize_client_name(s), _normalize_client_name(last.mappings[1].name))
              \/ StrLower(s) = StrLower(last.mappings[1].name) )
            => get_code(client_codes, s) = _normalize_code(last.mappings[1].code)

\* C10 (amended): right after add_mapping(name, code), get_code returns
\* _normalize_code(code) for the name and for every case variant of it, and for a
\* string whose normalized form contains the normalized name provided that form
\* is the normalized name itself, or is no key of the mapping and no key stored
\* before the name's key contains it or is contained in it.
C10_GetCodeAfterAddMapping ==
    last.op = "add_mapping" =>
        \A s \in MapperProbes :
            LET name == _normalize_client_name(last.mappings[1].name)
                ns   == _normalize_client_name(s)
            IN  ( \/ s = last.mappings[1].name
                  \/ StrLower(s) = StrLower(last.mappings[1].name)
                  \/ /\ Contains(ns, name)
                     /\ \/ ns = name
                        \/ /\ ns \notin Keys(client_codes)
                           /\ \A j \in 1..(KeyIndex(client_codes, name) - 1) :
                                  ~Overlaps(client_codes[j][1], ns) )
                => get_code(client_codes, s) = _normalize_code(last.mappings[1].code)

\* C10: after a mapping for "ab" was added behind another key, get_code answers
\* its code for the name, for a case variant and for a longer string
C10_Witness ==
    /\ last.op = "add_mapping"
    /\ last.mappings[1].name = Ab
    /\ Len(client_codes) = 2
    /\ KeyIndex(client_codes, Ab) = 2
    /\ get_code(client_codes, <<"A","B">>) = _normalize_code(last.mappings[1].code)
    /\ get_code(client_codes, <<"a","b","c","d">>) = _normalize_code(last.mappings[1].code)
    /\ get_code(client_codes, <<"a","b","c","d">>) # client_codes[1][2]

\* a string of exactly three uppercase letters A-Z
ThreeUppercase(s) == Len(s) = 3 /\ \A i \in DOMAIN s : IsUpper(s[i])

\* C11 (as the spec states it): get_code returns None for every name that
\* matches no stored client (no key contains its non-empty normalized form or is
\* contained in it), and for the empty name whatever mappings are stored.
C11_UnknownNameNotFound ==
    /\ get_code(client_codes, <<>>) = NoneVal
    /\ \A s \in MapperProbes :
           ( /\ _normalize_client_name(s) # <<>>
             /\ \A i \in DOMAIN client_codes :
                    ~Overlaps(client_codes[i][1], _normalize_client_name(s)) )
           => get_code(client_codes, s) = NoneVal

\* C12 (as the spec states it): suggest_code_for_client returns, for every client
\* name, exactly three characters that are all uppercase letters; a single word
\* shorter than three characters is padded with X, and a name of two words with
\* the first letter of its first word.
C12_SuggestionIsThreeLetters ==
    last.op = "suggest_code_for_client" =>
        /\ ThreeUppercase(last.replies[1].text)
        /\ last.text = <<"a">> => last.replies[1].text = <<"A","X","X">>
        /\ last.text = <<"a"," ","B">> => last.replies[1].text = <<"A","B","A">>

\* C13 (as the spec states it): after any sequence of add_mapping calls every
\* value of the mapping is exactly three uppercase letters, and the value stored
\* for the name last added is the code given, upper-cased, without its
\* non-letters, cut to three letters or padded with X.
C13_StoredCodesAreThreeLetters ==
    /\ \A i \in DOMAIN client_codes : ThreeUppercase(client_codes[i][2])
    /\ last.op = "add_mapping" =>
           Lookup(client_codes, _normalize_client_name(last.mappings[1].name))
               = ExactlyThree(KeepChars(StrUpper(last.mappings[1].code), Range(Uppers)))

\* C14: whenever add_mapping returns and its save did not fail, the config file
\* holds exactly the mapping in memory; the name added has the normalized code,
\* a name that was known keeps its place and the mapping its size (the code is
\* overwritten), every other key keeps its code, and no key is removed.
C14_FileFollowsMapping ==
    [][ ( Stepped /\ last'.op = "add_mapping" )
        => /\ last'.fails \cap SaveSites = {} => config_file' = JsonFile(client_codes')
           /\ Keys(client_codes) \subseteq Keys(client_codes')
           /\ Lookup(client_codes', _normalize_client_name(last'.mappings[1].name))
                  = _normalize_code(last'.mappings[1].code)
           /\ _normalize_client_name(last'.mappings[1].name) \in Keys(client_codes)
                  => Len(client_codes') = Len(client_codes)
           /\ \A i \in DOMAIN client_codes :
                  /\ client_codes'[i][1] = client_codes[i][1]
                  /\ client_codes[i][1] # _normalize_client_name(last'.mappings[1].name)
                         => client_codes'[i] = client_codes[i]
      ]_vars

\* C14: three names were added, at least one of them again with another code, the
\* last save worked, and the file holds the two keys of the mapping
C14_Witness ==
    /\ last.op = "add_mapping"
    /\ last.fails = {}
    /\ updates = 3
    /\ Len(client_codes) = 2
    /\ client_codes[1][2] # <<"X","X","X">>
    /\ config_file = JsonFile(client_codes)

\* C15: no failure of the config file reaches the caller.  The constructor
\* returns, with the empty mapping when the file is missing, unreadable or no
\* JSON (and with the file's mapping otherwise); add_mapping returns normally
\* whether or not its save failed, calls the save once, and get_code returns the
\* new code for the name added.
C15_StoreFailuresStayInside ==
    /\ last.op = "__init__" =>
           /\ last.ret = RetNone
           /\ config_file.kind # "json" => client_codes = <<>>
           /\ config_file.kind = "json" => client_codes = config_file.content
    /\ last.op = "add_mapping" =>
           /\ last.ret = RetNone
           /\ last.saves = 1
           /\ get_code(client_codes, last.mappings[1].name)
                  = _normalize_code(last.mappings[1].code)

\* C15: the save of an add_mapping call failed after the file was truncated, and
\* get_code answers the new code from memory
C15_Witness ==
    /\ last.op = "add_mapping"
    /\ last.fails = {"save_write"}
    /\ config_file = InvalidFile
    /\ get_code(client_codes, last.mappings[1].name) = <<"A","B","C">>
    /\ JsonFile(client_codes) # config_file

\* the fields of the column mapping
Fields == {"date", "client", "description", "hours", "unbillable_hours", "revenue"}

\* C16 (as the spec states it): after construction column_mapping exists and gives
\* a column to each of the six fields; when the read of the header row failed or
\* the live table is empty it is the default mapping; and an add_work_entry call
\* on an existing table, with no backend failure, writes its row.
C16_MappingAlwaysExists ==
    /\ column_mapping # Unset
    /\ \A f \in Fields : column_mapping[f] >= 0
    /\ ( /\ last.op = "__init__"
         /\ "header_read" \in last.fails \/ sheets[WorkHoursSheet] = <<>> )
       => column_mapping = DefaultMapping
    /\ ( /\ last.op = "add_work_entry"
         /\ last.fails = {}
         /\ sheets[TargetOfCall(last.writes[1])] # NoSheet )
       => last.writes[1].ok

\* the other table
OtherSheet(n) == IF n = TestSheet THEN WorkHoursSheet ELSE TestSheet

\* the table the spec has add_work_entry write to
ClaimedTarget(shs, tm) ==
    IF tm \/ shs[WorkHoursSheet] = NoSheet THEN TestSheet ELSE WorkHoursSheet

\* C17 (as the spec states it): an add_work_entry call with no backend failure
\* writes its row to the trial table when test_mode is true, to the live table
\* when test_mode is false and the live table exists, and to the trial table
\* when the live table does not exist; the other table is left as it was.
C17_TargetTableByMode ==
    [][ ( /\ Stepped
          /\ last'.op = "add_work_entry"
          /\ last'.fails = {}
          /\ sheets[ClaimedTarget(sheets, last'.writes[1].test_mode)] # NoSheet )
        => /\ last'.writes[1].ok
           /\ CellAt(sheets'[ClaimedTarget(sheets, last'.writes[1].test_mode)],
                     last'.writes[1].row, column_mapping.client)
                  = last'.writes[1].work_data.client_code
           /\ sheets'[OtherSheet(ClaimedTarget(sheets, last'.writes[1].test_mode))]
                  = sheets[OtherSheet(ClaimedTarget(sheets, last'.writes[1].test_mode))]
      ]_vars

\* the mode commands
ModeCommands == {"cmd_enable_production", "cmd_test_mode"}

\* C18: the flag is True at start-up; it changes only by a mode command of an
\* allowed user, to False by enable_production and to True by test_mode (a
\* refused command leaves it alone); every add_work_entry call of the bot passes
\* the flag's value of that moment, the live table changes only while the flag
\* is False and the trial table only while it is True.
C18_ModeFlagDecidesTheTable ==
    [][ /\ updates = 0 => test_mode
        /\ test_mode' # test_mode => last'.op \in ModeCommands
        /\ ( Stepped /\ last'.op \in ModeCommands )
           => test_mode' = IF ~_is_user_allowed(last'.user) THEN test_mode
                           ELSE last'.op = "cmd_test_mode"
        /\ Stepped => \A i \in DOMAIN last'.writes :
                          /\ last'.writes[i].test_mode = test_mode
                          /\ test_mode' = test_mode
        /\ sheets'[WorkHoursSheet] # sheets[WorkHoursSheet] => ~test_mode /\ ~test_mode'
        /\ sheets'[TestSheet] # sheets[TestSheet] => test_mode /\ test_mode'
      ]_vars

\* C18: production was enabled and a record was written to the live table, while
\* the trial table still holds only its header
C18_Witness ==
    /\ ~test_mode
    /\ Len(last.writes) = 1
    /\ last.writes[1].ok
    /\ ~last.writes[1].test_mode
    /\ Len(sheets[WorkHoursSheet]) = 2
    /\ sheets[TestSheet] = <<HeaderRow>>

\* a cell holds the hours of a record (a None is skipped by the write)
HoldsHours(cell, hours) ==
    IF hours = <<>> THEN cell \in {NoneCell, EmptyCell} ELSE cell = NumCell(hours[1])

\* C19 (as the spec states it): the row built for a record never has both the
\* hours cell and the unbillable_hours cell set; the hours are in the hours
\* column exactly when billable is true and in the unbillable_hours column
\* exactly when it is not, and the revenue cell is blank when the record is not
\* billable or has no hours.
C19_HoursInOneColumn ==
    last.op = "_format_row_data" =>
        LET wd       == last.analysis[1]
            hours    == last.row[column_mapping.hours + 1]
            unbilled == last.row[column_mapping.unbillable_hours + 1]
            revenue  == last.row[column_mapping.revenue + 1]
        IN  /\ hours \in {NoneCell, EmptyCell} \/ unbilled \in {NoneCell, EmptyCell}
            /\ wd.billable = <<TRUE>> => HoldsHours(hours, wd.hours) /\ unbilled = EmptyCell
            /\ wd.billable # <<TRUE>> => HoldsHours(unbilled, wd.hours) /\ hours = EmptyCell
            /\ ( wd.billable # <<TRUE>> \/ wd.hours = <<>> ) => revenue = EmptyCell

\* the hourly rate of an extraction, 85 when it gives none
RateOf(analysis) == IF analysis.hourly_rate = <<>> THEN DefaultRate ELSE analysis.hourly_rate[1]

\* C20 (as the spec states it): when the bot wrote the record of a billable work
\* entry with hours h whose extraction gives the hourly rate r (85 when it gives
\* none), the revenue cell of the row written holds h * r.
C20_RevenueIsHoursTimesRate ==
    ( /\ last.op = "handle_message"
      /\ Len(last.writes) = 1
      /\ last.writes[1].ok
      /\ last.analysis[1].billable = <<TRUE>>
      /\ last.analysis[1].hours # <<>> )
    => CellAt(sheets[TargetOfCall(last.writes[1])], last.writes[1].row, column_mapping.revenue)
           = IntToStr(last.analysis[1].hours[1] * RateOf(last.analysis[1]))


\* C21: add_work_entry does not raise; it returns True only when the final row
\* update was issued and went through (the record's code is then in the row it
\* names), it returns False whenever that update fails, and the update is issued
\* at most once in a call.
C21_FinalWriteReportedOnce ==
    (last.op = "add_work_entry") =>
        LET w == last.writes[1] IN
        /\ ~w.raised
        /\ w.final_updates <= 1
        /\ w.ok => /\ w.final_updates = 1
                   /\ "final_write" \notin last.fails
                   /\ w.row > 0
                   /\ CellAt(sheets[TargetOfCall(w)], w.row, column_mapping.client)
                          = w.work_data.client_code
        /\ ("final_write" \in last.fails) => ~w.ok

\* C21: one call whose final update failed and returned False after one call that
\* returned True is the last call made
C21_Witness ==
    /\ last.op = "add_work_entry"
    /\ "final_write" \in last.fails
    /\ last.writes[1].final_updates = 1
    /\ ~last.writes[1].ok
    /\ \E r \in DOMAIN sheets[TargetOfCall(last.writes[1])] :
           CellAt(sheets[TargetOfCall(last.writes[1])], r, column_mapping.client) = GLX

\* C22 (as the spec states it): when an add_work_entry call of a handler returned
\* False, the handler sends a reply that reports the failure and neither builds
\* nor sends a confirmation; this on the path of a known code (handle_message)
\* and on the path of a code just given (handle_client_code).
C22_FailedWriteIsReported ==
    \A i \in DOMAIN last.writes :
        ~last.writes[i].ok =>
            /\ last.inner # "registered"
            /\ \A j \in DOMAIN last.replies : last.replies[j].kind # "saved"
            /\ \E j \in DOMAIN last.replies : last.replies[j].kind = "save_failed"

\* the date string is exactly DD-MM-YYYY, YYYY-MM-DD or D/M/YYYY (one or two
\* digits for day and month)
IsDayFirst(s) == Len(s) = 10 /\ MatchesDayFirst(s)
IsISO(s)      == Len(s) = 10 /\ MatchesISO(s)
IsSlash(s)    == /\ MatchesSlash(s)
                 /\ Len(SplitOn(s, "/", <<>>)) = 3
                 /\ Len(SplitOn(s, "/", <<>>)[3]) = 4

\* year, month and day of a date string of one of the three shapes
DateOf(s) ==
    IF IsDayFirst(s)
    THEN LET p == SplitOn(s, "-", <<>>) IN <<ParseInt(p[3]), ParseInt(p[2]), ParseInt(p[1])>>
    ELSE IF IsISO(s)
    THEN LET p == SplitOn(s, "-", <<>>) IN <<ParseInt(p[1]), ParseInt(p[2]), ParseInt(p[3])>>
    ELSE LET p == SplitOn(s, "/", <<>>) IN <<ParseInt(p[3]), ParseInt(p[2]), ParseInt(p[1])>>

\* C24 (as the spec states it): the date check turns a valid date written as
\* DD-MM-YYYY, YYYY-MM-DD or D/M/YYYY into the DD-MM-YYYY string of the same
\* date, which the check leaves as it is; every other date string becomes
\* today's date.
C24_DateCheckNormalizes ==
    (last.op = "validate_date" /\ last.text # NoneVal) =>
        LET s == last.text
            out == last.replies[1].text
        IN  IF IsDayFirst(s) \/ IsISO(s) \/ IsSlash(s)
            THEN ValidDate(DateOf(s)[1], DateOf(s)[2], DateOf(s)[3]) =>
                     /\ IsDayFirst(out)
                     /\ DateOf(out) = DateOf(s)
                     /\ ValidatedDate(out) = out
            ELSE out = Today

\* C23: when the extraction call raised or gave no, malformed or no usable output,
\* analyze_work_entry returns is_work_entry false and nothing else, and the
\* message is answered as chat: no add_work_entry call, neither table changed,
\* no pending record stored or changed, the client mapping and its file as before.
C23_FailedExtractionIsChat ==
    [][ ( /\ Stepped
          /\ last'.op = "handle_message" /\ last'.extracted
          /\ last'.response \in FailedKinds )
        => /\ last'.analysis = <<[is_work_entry |-> FALSE]>>
           /\ last'.inner = "chat"
           /\ last'.writes = <<>> /\ last'.mappings = <<>>
           /\ sheets' = sheets
           /\ pending_work_entries' = pending_work_entries
           /\ client_codes' = client_codes /\ config_file' = config_file
      ]_vars

\* C23: the extraction of a message failed for a user whose record is pending,
\* while a row of an earlier message is in the trial table
C23_Witness ==
    /\ last.op = "handle_message" /\ last.extracted
    /\ last.response = "bad_json"
    /\ pending_work_entries[last.user] # <<>>
    /\ Len(sheets[TestSheet]) > 1

\* C25: with a list of allowed users, a handler run for a user who is not on it
\* changes nothing: the text is not extracted, no add_work_entry and no
\* add_mapping call is made, and the tables, the pending records, the client
\* mapping with its file and the mode flag are as before.
C25_RefusedUserChangesNothing ==
    [][ ( /\ Stepped
          /\ AllowedUserIds # {}
          /\ last'.user \notin AllowedUserIds )
        => /\ ~last'.extracted
           /\ last'.writes = <<>> /\ last'.mappings = <<>>
           /\ sheets' = sheets
           /\ pending_work_entries' = pending_work_entries
           /\ client_codes' = client_codes /\ config_file' = config_file
           /\ test_mode' = test_mode
      ]_vars

\* C25: a text message of the user who is not allowed was handled in production
\* mode while a record of an allowed user is pending
C25_Witness ==
    /\ last.op = "handle_message"
    /\ last.user \notin AllowedUserIds
    /\ ~test_mode
    /\ \E u \in AllowedUserIds : pending_work_entries[u] # <<>>

\* initialize() of the plugin worked on returned True
InitializeReturnedTrue == last'.response \in {"initialize_true", "register_raises"}

\* C26: over every sequence of initialize_plugin calls, no call raises; a call
\* puts its plugin id into PluginManager.plugins, and handlers into the
\* application, only when initialize() returned True; a call whose constructor
\* or initialize() raised, or whose initialize() returned False, returns False
\* and leaves the registry (and the application) as it was; and every id in the
\* registry has its handlers registered.
C26_RegistryHoldsInitializedPlugins ==
    [][ ( Stepped /\ last'.op = "initialize_plugin" )
        => /\ last'.ret \in {RetTrue, RetFalse}
           /\ (plugins' # plugins) => (InitializeReturnedTrue /\ last'.ret = RetTrue)
           /\ (telegram_app' # telegram_app) => InitializeReturnedTrue
           /\ (last'.response \in {"constructor_raises", "initialize_raises", "initialize_false"})
                 => /\ last'.ret = RetFalse
                    /\ plugins' = plugins
                    /\ telegram_app' = telegram_app
           /\ \A i \in DOMAIN plugins' : \E j \in DOMAIN telegram_app' :
                 /\ telegram_app'[j].plugin = plugins'[i][1]
                 /\ telegram_app'[j].instance = plugins'[i][2]
                 /\ telegram_app'[j].all
      ]_vars

\* C26: a plugin whose initialize() returned False was worked on after the same
\* id had been stored, and the stored instance is still the earlier one
C26_Witness ==
    /\ last.op = "initialize_plugin"
    /\ last.response = "initialize_false"
    /\ last.ret = RetFalse
    /\ \E i \in DOMAIN plugins : plugins[i][1] = last.text[1] /\ plugins[i][2] < updates
    /\ Len(plugins) = 2

\* the 0-based indices of the headers of the live table that _detect_columns
\* takes for a field
HeadersOf(field) ==
    {i \in 0..(Len(sheets[WorkHoursSheet][1]) - 1) :
        FieldOfLowered(StrLower(CellText(sheets[WorkHoursSheet][1][i + 1]))) = field}

\* C27 (as the spec states it): after column discovery each field that some
\* header is taken for has the index of the first such header; a later header
\* for the same field does not change the column.
C27_FirstHeaderWins ==
    (last.op = "_detect_columns") =>
        \A field \in DOMAIN DefaultMapping :
            HeadersOf(field) # {} => column_mapping[field] = MinOf(HeadersOf(field))

\* the 0-based indices of the headers with the hours word and without (with) a
\* word for unbillable
HoursHeaders ==
    {i \in 0..(Len(sheets[WorkHoursSheet][1]) - 1) :
        LET h == StrLower(CellText(sheets[WorkHoursSheet][1][i + 1])) IN
        Contains(h, WordUren) /\ ~Contains(h, WordOnbetaald) /\ ~Contains(h, WordUnbillable)}
UnbillableHeaders ==
    {i \in 0..(Len(sheets[WorkHoursSheet][1]) - 1) :
        LET h == StrLower(CellText(sheets[WorkHoursSheet][1][i + 1])) IN
        Contains(h, WordUren) /\ (Contains(h, WordOnbetaald) \/ Contains(h, WordUnbillable))}

DateCellOf(r) == StrLower(Strip(CellAt(sheets[TestSheet], r, column_mapping.date)))

\* the rows whose date cell is set and equals or contains a representation of
\* the date asked for
RowsHoldingDate ==
    {r \in DOMAIN sheets[TestSheet] :
        /\ CellAt(sheets[TestSheet], r, column_mapping.date) # <<>>
        /\ \E k \in DOMAIN SearchFormats(last.text) :
              \/ DateCellOf(r) = StrLower(SearchFormats(last.text)[k])
              \/ Contains(DateCellOf(r), StrLower(SearchFormats(last.text)[k]))}

\* the rows whose date cell is set and is contained in a representation
RowsHeldByDate ==
    {r \in DOMAIN sheets[TestSheet] :
        /\ CellAt(sheets[TestSheet], r, column_mapping.date) # <<>>
        /\ \E k \in DOMAIN SearchFormats(last.text) :
              Contains(StrLower(SearchFormats(last.text)[k]), DateCellOf(r))}

\* C29 (as the spec states it): _find_date_row returns the topmost row whose
\* date cell equals a representation of the date, contains one or is contained
\* in one, and 0 exactly when there is no such row.
C29_DateRowEitherWay ==
    (last.op = "_find_date_row" /\ last.fails = {}) =>
        last.row[1] = IF RowsHoldingDate \cup RowsHeldByDate = {} THEN 0
                      ELSE MinOf(RowsHoldingDate \cup RowsHeldByDate)

\* C29 (amended): when the date column was read, _find_date_row returns the
\* topmost row whose date cell equals or contains a representation of the date,
\* and 0 exactly when there is no such row; a cell that is only a part of a
\* representation is no match.  When the read raises it returns 0.
C29_DateRowFound ==
    (last.op = "_find_date_row") =>
        last.row[1] = IF last.fails # {} \/ RowsHoldingDate = {} THEN 0
                      ELSE MinOf(RowsHoldingDate)

\* C29: the date was found in the second of two rows that hold it, below a row
\* with the month alone
C29_Witness ==
    /\ last.op = "_find_date_row" /\ last.fails = {}
    /\ last.row[1] = 3
    /\ Cardinality(RowsHoldingDate) = 2
    /\ 2 \in RowsHeldByDate

\* the places of the keys that contain the normalized name or are contained in it
OverlappingKeys(normalized_name) ==
    {i \in DOMAIN client_codes : Overlaps(client_codes[i][1], normalized_name)}

TargetBefore == sheets[TargetOfCall(last'.writes[1])]
TargetAfter  == sheets'[TargetOfCall(last'.writes[1])]

\* the rows of table t whose date cell is set and equals or contains a
\* representation of the date
RowsOfDate(t, date_str) ==
    {r \in DOMAIN t :
        /\ CellAt(t, r, column_mapping.date) # <<>>
        /\ \E k \in DOMAIN SearchFormats(date_str) :
              Contains(StrLower(Strip(CellAt(t, r, column_mapping.date))),
                       StrLower(SearchFormats(date_str)[k]))}

\* C31 (as the spec states it): a call with no backend failure on a table that
\* has no row of the record's date writes the record to the row after the last
\* row whose date cell is set, and leaves every row the table had as it was.
C31_AppendsBelowTheDates ==
    [][ ( /\ Stepped
          /\ last'.op = "add_work_entry" /\ last'.fails = {}
          /\ last'.writes[1].ok
          /\ RowsOfDate(TargetBefore, last'.writes[1].work_data.date) = {} )
        => /\ last'.writes[1].row = ColumnLength(TargetBefore, column_mapping.date) + 1
           /\ \A r \in DOMAIN TargetBefore : TargetAfter[r] = TargetBefore[r]
      ]_vars

\* the topmost row of the record's date in the table a call worked on, and how
\* many rows directly below it hold that date too
DateRowBefore == MinOf(RowsOfDate(TargetBefore, last'.writes[1].work_data.date))
BlockBelow ==
    MaxOf({k \in 0..Len(TargetBefore) :
              \A i \in 1..k :
                  DateRowBefore + i \in RowsOfDate(TargetBefore, last'.writes[1].work_data.date)})

\* the rows of the block that carry the record's client, as name or as code
ClientRowsBefore ==
    {r \in DateRowBefore..(DateRowBefore + BlockBelow) :
        CellAt(TargetBefore, r, column_mapping.client)
            \in {last'.writes[1].work_data.client, last'.writes[1].work_data.client_code}}

\* C32 (as the spec states it): a call with no backend failure that finds the
\* block of the record's date at row R, with no row of the record's client in
\* it, writes to the row directly after the last row of the block (the rows
\* below R whose date cell denotes the same date), however long the block is,
\* and that row then carries the record's date.
C32_NewRowAfterTheBlock ==
    [][ ( /\ Stepped
          /\ last'.op = "add_work_entry" /\ last'.fails = {}
          /\ last'.writes[1].ok
          /\ RowsOfDate(TargetBefore, last'.writes[1].work_data.date) # {}
          /\ ClientRowsBefore = {} )
        => /\ last'.writes[1].row = DateRowBefore + BlockBelow + 1
           /\ CellAt(TargetAfter, last'.writes[1].row, column_mapping.date)
                  = last'.writes[1].work_data.date
      ]_vars

\* the backend reads of add_work_entry that locate the row
LocatingReads == {"date_read", "date_read_again", "client_read", "insert_read", "next_row_read"}

\* C33 (as the spec states it, on tables whose first column is the date column):
\* a call in which a read that locates the row raised, and no write did, returns
\* True, writes the record below all rows the table had, and leaves every row it
\* had (the header row too) as it was.
C33_FailedReadAppends ==
    [][ ( /\ Stepped
          /\ last'.op = "add_work_entry"
          /\ last'.fails \cap LocatingReads # {}
          /\ column_mapping.date = 0 )
        => /\ last'.writes[1].ok
           /\ last'.writes[1].row > Len(TargetBefore)
           /\ \A r \in DOMAIN TargetBefore : TargetAfter[r] = TargetBefore[r]
      ]_vars

\* C34 (as the spec states it, on tables whose first column is the date column):
\* a call with no backend failure for a record whose date and client have no row
\* yet leaves every row that held something (an entry of another client or
\* date, a template row) as it was.
C34_NoRowOverwritten ==
    [][ ( /\ Stepped
          /\ last'.op = "add_work_entry" /\ last'.fails = {}
          /\ last'.writes[1].ok
          /\ column_mapping.date = 0
          /\ \A r \in RowsOfDate(TargetBefore, last'.writes[1].work_data.date) :
                CellAt(TargetBefore, r, column_mapping.client)
                    \notin {last'.writes[1].work_data.client,
                            last'.writes[1].work_data.client_code} )
        => \A r \in DOMAIN TargetBefore :
               TargetBefore[r] # <<>> => TargetAfter[r] = TargetBefore[r]
      ]_vars

\* the month a word names, in Dutch or in English; 0: none
MonthOfWord(w) ==
    IF \E m \in 1..12 : w \in {StrLower(dutch_months[m]), StrLower(MonthNames[m])}
    THEN CHOOSE m \in 1..12 : w \in {StrLower(dutch_months[m]), StrLower(MonthNames[m])}
    ELSE 0

\* the day and the month a text denotes: of DD-MM-YYYY, and of a day number
\* followed by the name of a month; <<>> when it denotes no day
DayMonthOfWords(ws) ==
    IF \E i \in 1..(Len(ws) - 1) : ParseInt(ws[i]) > 0 /\ MonthOfWord(ws[i + 1]) > 0
    THEN LET i == CHOOSE j \in 1..(Len(ws) - 1) : ParseInt(ws[j]) > 0 /\ MonthOfWord(ws[j + 1]) > 0
         IN  <<ParseInt(ws[i]), MonthOfWord(ws[i + 1])>>
    ELSE <<>>
DayMonthOfParts(s, parts) ==
    IF Len(parts) = 3 /\ ParseInt(parts[1]) > 0 /\ ParseInt(parts[2]) > 0
    THEN <<ParseInt(parts[1]), ParseInt(parts[2])>>
    ELSE DayMonthOfWords(SplitOn(s, " ", <<>>))
DayMonthOf(text) ==
    DayMonthOfParts(StrLower(Strip(text)), SplitOn(StrLower(Strip(text)), "-", <<>>))

\* C35 (as the spec states it): the row _find_date_row returns never holds a date
\* cell that denotes another day or another month than the date asked for.
C35_RowOfTheSameDay ==
    (last.op = "_find_date_row" /\ last.row[1] > 0) =>
        DayMonthOf(DateCellOf(last.row[1])) \in {<<>>, DayMonthOf(last.text)}

\* C36 (as the spec states it): whatever the bot has handled, no key of the client
\* mapping is the empty string (a key every name contains, so that get_code
\* would resolve every later client with its code).
C36_NoEmptyKey ==
    \A i \in DOMAIN client_codes : client_codes[i][1] # <<>>

StoredReminders(rem) ==
    UNION { { [user |-> rem[k][1], reminder |-> rem[k][2][i]] : i \in DOMAIN rem[k][2] } :
                k \in DOMAIN rem }

=============================================================================
